---- MODULE Spec2Model ----
(***************************************************************************)
(* discord-rich-previews: the message handler of src/src/bot.ts (rate      *)
(* limiter, embed suppression, one task per Facebook URL) and the metadata *)
(* pipeline of src/src/utils/facebookMetadata.ts (cache read, URL          *)
(* normalisation, primary fetch, mobile fallback, extraction, cache        *)
(* write).                                                                 *)
(*                                                                         *)
(* Texts and URLs are sequences of tokens; the string a sequence stands    *)
(* for is the concatenation of its tokens. Every regular expression of     *)
(* the source is modelled at token granularity.                            *)
(***************************************************************************)
EXTENDS Integers, Sequences, FiniteSets, TLC

VARIABLES
    clock,                \* Date.now(), in ms
    rateLimitTimestamps,  \* bot.ts:17  Map<channelId, number[]>
    lastCheck,            \* arguments and return value of the last isRateLimited call
    admitted,             \* history: per channel, the times of all admissions
    refused,              \* history: per channel, the number of denials
    checks,               \* number of isRateLimited calls so far
    messageHelper,        \* bot.ts:15  TRUE once onReady has created the helper
    cache,                \* TRUE iff env.LINK_METADATA_CACHE is bound
    store,                \* the KV namespace: cache key -> stored value
    handlers,             \* the onMessage invocations, one per gateway event
    lastEvent,            \* the operation that completed last, and its outcome
    call                  \* a call of an exported or helper function on its own

limiterVars == <<clock, rateLimitTimestamps, lastCheck, admitted, refused, checks>>

pipelineVars == <<messageHelper, cache, store, handlers, lastEvent>>

vars == <<clock, rateLimitTimestamps, lastCheck, admitted, refused, checks,
          messageHelper, cache, store, handlers, lastEvent, call>>

(***************************************************************************)
(* Program constants                                                       *)
(***************************************************************************)
RATE_LIMIT_MAX_REQUESTS == 10

RATE_LIMIT_WINDOW_MS == 60000

(***************************************************************************)
(* Bounds of the model                                                     *)
(***************************************************************************)
\* the clock takes the values 0, TickMs, ..., MaxTicks * TickMs
MaxTicks == 2

\* isRateLimited is called at most MaxChecks times in a behaviour
MaxChecks == 12

\* the gateway delivers at most MaxMessages events in a behaviour
MaxMessages == 2

\* the messages of a behaviour hold at most MaxTasks Facebook URLs in all
MaxTasks == 2

TickMs == RATE_LIMIT_WINDOW_MS \div 2

Channels == {"c1", "c2"}

NoChannel == "none"

Range(f) == {f[i] : i \in DOMAIN f}

(***************************************************************************)
(* URLs (facebookMetadata.ts:301-325, 155-163, 191, 104-108)               *)
(*                                                                         *)
(* A string is a sequence of tokens, standing for their concatenation:     *)
(* scheme tokens, host tokens (labels ending in "." and registrable        *)
(* domains) and path tokens, in any order.                                 *)
(***************************************************************************)
SchemeTokens == {"https://", "http://", "HTTPS://"}

LabelTokens == {"www.", "m.", "business.", "WWW."}

DomainTokens == {"facebook.com", "fb.com", "example.com", "FACEBOOK.COM"}

\* the characters excluded by [^\s<>"{}|\\^`\[\]] in the URL pattern
DelimiterTokens == {" ", "<", ">"}

\* String.prototype.toLowerCase on the tokens that have upper-case letters
ToLowerCase(tok) ==
    CASE tok = "HTTPS://" -> "https://"
      [] tok = "WWW." -> "www."
      [] tok = "FACEBOOK.COM" -> "facebook.com"
      [] tok = "HTTPS" -> "https"
      [] OTHER -> tok

LowerAll(toks) == [i \in 1..Len(toks) |-> ToLowerCase(toks[i])]

\* the number of leading tokens of toks that belong to the set S
RECURSIVE LeadingIn(_, _)
LeadingIn(toks, S) ==
    IF toks = <<>> \/ Head(toks) \notin S THEN 0
    ELSE 1 + LeadingIn(Tail(toks), S)

\* the tokens that begin with "/"
PathTokens == {"/p", "/share/", "/posts/1", "/a"}

\* the characters of a path token between its first "/" and the next
LeadingSegment(tok) ==
    CASE tok = "/p" -> "p"
      [] tok = "/share/" -> "share"
      [] tok = "/posts/1" -> "posts"
      [] tok = "/a" -> "a"

\* the path token has a "/" after its first one
HasSecondSlash(tok) == tok \in {"/share/", "/posts/1"}

\* the characters of a scheme token before its ":"
SchemeName(tok) ==
    CASE tok = "https://" -> "https"
      [] tok = "http://" -> "http"
      [] tok = "HTTPS://" -> "HTTPS"

\* the position of the first ":" of the string: that of its first scheme
\* token, 0 when it has none
SchemePosition(url) ==
    IF \A i \in 1..Len(url) : url[i] \notin SchemeTokens THEN 0
    ELSE CHOOSE i \in 1..Len(url) :
            /\ url[i] \in SchemeTokens
            /\ \A j \in 1..(i - 1) : url[j] \notin SchemeTokens

\* the host the URL parser reads from toks: the characters up to the first
\* "/" or ":" (a ":" starts the port, which is empty before "//")
RECURSIVE HostRun(_)
HostRun(toks) ==
    IF toks = <<>> \/ Head(toks) \in PathTokens THEN <<>>
    ELSE IF Head(toks) \in SchemeTokens THEN <<SchemeName(Head(toks))>>
    ELSE <<Head(toks)>> \o HostRun(Tail(toks))

\* the host of the string as new URL reads it, for a string with a ":". The
\* scheme is everything before the first ":"; it is special (http, https)
\* when the scheme token comes first. After a special scheme every leading
\* "/" is skipped and the host is lower-cased; after another scheme the
\* host starts right after "//" and keeps its case.
UrlHost(url) ==
    LET p    == SchemePosition(url)
        rest == SubSeq(url, p + 1, Len(url))
    IN  IF p > 1 THEN HostRun(rest)
        ELSE IF rest # <<>> /\ Head(rest) \in PathTokens
             THEN <<LeadingSegment(Head(rest))>>
                     \o (IF HasSecondSlash(Head(rest)) THEN <<>>
                         ELSE LowerAll(HostRun(Tail(rest))))
             ELSE LowerAll(HostRun(rest))

\* new URL(url) succeeds: the string has a ":" with only letters, digits,
\* "+", "-" and "." before it, the first a letter, and the host of a
\* special scheme is not empty
UrlParses(url) ==
    LET p == SchemePosition(url)
    IN  /\ p > 0
        /\ \A i \in 1..(p - 1) : url[i] \in LabelTokens \cup DomainTokens
        /\ p = 1 => UrlHost(url) # <<>>

\* new URL(url).hostname.toLowerCase(), as its tokens
Hostname(url) == LowerAll(UrlHost(url))

\* hostname.endsWith('.facebook.com')
EndsWithDotFacebook(host) ==
    /\ Len(host) >= 2
    /\ host[Len(host)] = "facebook.com"
    /\ host[Len(host) - 1] \in LabelTokens

\* isFacebookUrl (facebookMetadata.ts:301-316)
isFacebookUrl(url) ==
    IF ~UrlParses(url) THEN FALSE
    ELSE LET hostname == Hostname(url)
         IN  \/ hostname = <<"facebook.com">>
             \/ hostname = <<"www.", "facebook.com">>
             \/ hostname = <<"m.", "facebook.com">>
             \/ hostname = <<"fb.com">>
             \/ hostname = <<"www.", "fb.com">>
             \/ EndsWithDotFacebook(hostname)

\* text.match(/https?:\/\/[^\s<>"{}|\\^`\[\]]+/gi) || []: every match starts
\* at a scheme token that is followed by a non-delimiter and runs up to the
\* next delimiter; the scan resumes after the match
RECURSIVE MatchUrls(_)
MatchUrls(text) ==
    IF Len(text) < 2 THEN <<>>
    ELSE IF text[1] \in SchemeTokens /\ text[2] \notin DelimiterTokens
         THEN LET n == 1 + LeadingIn(Tail(text), { t \in Range(text) : t \notin DelimiterTokens })
              IN  <<SubSeq(text, 1, n)>> \o MatchUrls(SubSeq(text, n + 1, Len(text)))
         ELSE MatchUrls(Tail(text))

\* the positions of a text where a URL token starts: a scheme followed by a
\* character that can be part of a URL, and not inside a URL token that
\* started earlier in the same run of such characters
UrlTokenStarts(text) ==
    {p \in 1..(Len(text) - 1) :
        /\ text[p] \in SchemeTokens
        /\ text[p + 1] \notin DelimiterTokens
        /\ ~\E q \in 1..(p - 1) :
              /\ text[q] \in SchemeTokens
              /\ \A k \in q..p : text[k] \notin DelimiterTokens}

\* the URL token that starts at p: up to the next delimiter or the end
UrlTokenAt(text, p) ==
    LET ends == {e \in p..Len(text) : \A k \in p..e : text[k] \notin DelimiterTokens}
    IN  SubSeq(text, p, CHOOSE e \in ends : \A f \in ends : f <= e)

\* a sequence without the later occurrences of its elements
RECURSIVE WithoutRepeats(_)
WithoutRepeats(urls) ==
    IF urls = <<>> THEN <<>>
    ELSE LET front == SubSeq(urls, 1, Len(urls) - 1)
             last  == urls[Len(urls)]
         IN  IF last \in Range(front) THEN WithoutRepeats(front)
             ELSE Append(WithoutRepeats(front), last)

\* extractFacebookUrls (facebookMetadata.ts:321-325)
extractFacebookUrlsUnique(text) == WithoutRepeats(SelectSeq(MatchUrls(text), isFacebookUrl))

extractFacebookUrls(text) == SelectSeq(MatchUrls(text), isFacebookUrl)

\* url.includes('/share/')
IncludesShare(url) == \E i \in 1..Len(url) : url[i] = "/share/"

\* url.replace(/^(https?:\/\/)(m\.|www\.)?(facebook\.com)/, '$1www.$3')
ReplaceHostWithWww(url) ==
    IF Len(url) >= 2 /\ url[1] \in {"https://", "http://"}
    THEN IF url[2] = "facebook.com"
         THEN <<url[1], "www.">> \o Tail(url)
         ELSE IF Len(url) >= 3 /\ url[2] \in {"m.", "www."} /\ url[3] = "facebook.com"
              THEN <<url[1], "www.">> \o SubSeq(url, 3, Len(url))
              ELSE url
    ELSE url

\* normalizedUrl (facebookMetadata.ts:155-163)
NormalizeUrl(url) == IF IncludesShare(url) THEN ReplaceHostWithWww(url) ELSE url

\* normalizedUrl.replace(/www\.facebook\.com/, 'm.facebook.com'): the first
\* occurrence of www.facebook.com, wherever it is, becomes m.facebook.com
FirstWwwFacebook(url) ==
    LET hits == {i \in 1..(Len(url) - 1) : url[i] = "www." /\ url[i + 1] = "facebook.com"}
    IN  IF hits = {} THEN 0 ELSE CHOOSE i \in hits : \A j \in hits : i <= j

MobileUrl(url) ==
    LET i == FirstWwwFacebook(url)
    IN  IF i = 0 THEN url ELSE [url EXCEPT ![i] = "m."]

\* getCacheKey (facebookMetadata.ts:104-108)
getCacheKeyNormalized(url) ==
    <<"link_meta:">> \o (IF IncludesShare(url) THEN ReplaceHostWithWww(url) ELSE url)

getCacheKey(url) == <<"link_meta:">> \o url

(***************************************************************************)
(* Texts (facebookMetadata.ts:248-296)                                     *)
(*                                                                         *)
(* A text is a sequence of tokens. An optional string is the empty set     *)
(* (undefined) or the set holding its text.                                *)
(***************************************************************************)
Undefined == {}

Some(text) == {text}

TheText(opt) == CHOOSE t \in opt : TRUE

\* JavaScript truthiness of an optional string: defined and not ""
Truthy(opt) == opt # {} /\ opt # {<<>>}

\* text.replace(/<from>/g, to) for a pattern that is one token
RECURSIVE ReplaceToken(_, _, _)
ReplaceToken(text, from, to) ==
    IF text = <<>> THEN <<>>
    ELSE (IF Head(text) = from THEN to ELSE <<Head(text)>>)
         \o ReplaceToken(Tail(text), from, to)

\* one .replace(/&name;/g, ch): a single scan from left to right; the entity
\* is one token "&name;", or the token "&" (left by an earlier replacement)
\* followed by the token "name;". What a replacement puts is not scanned again.
RECURSIVE ReplaceEntity(_, _, _)
ReplaceEntity(text, name, ch) ==
    IF text = <<>> THEN <<>>
    ELSE IF Head(text) = "&" \o name
         THEN <<ch>> \o ReplaceEntity(Tail(text), name, ch)
         ELSE IF Len(text) >= 2 /\ text[1] = "&" /\ text[2] = name
              THEN <<ch>> \o ReplaceEntity(SubSeq(text, 3, Len(text)), name, ch)
              ELSE <<Head(text)>> \o ReplaceEntity(Tail(text), name, ch)

\* the numeric character references of the model, by radix: the name of
\* &#xH; or &#D; and the digits between "&#x" or "&#" and ";"
HexDigits ==
    [n \in {"#x41;", "#x26;", "#x1F600;", "#xD800;", "#x110000;"} |->
        CASE n = "#x41;" -> <<4, 1>>
          [] n = "#x26;" -> <<2, 6>>
          [] n = "#x1F600;" -> <<1, 15, 6, 0, 0>>
          [] n = "#xD800;" -> <<13, 8, 0, 0>>
          [] n = "#x110000;" -> <<1, 1, 0, 0, 0, 0>>]

DecDigits ==
    [n \in {"#65;", "#128512;", "#57343;", "#1114112;"} |->
        CASE n = "#65;" -> <<6, 5>>
          [] n = "#128512;" -> <<1, 2, 8, 5, 1, 2>>
          [] n = "#57343;" -> <<5, 7, 3, 4, 3>>
          [] n = "#1114112;" -> <<1, 1, 1, 4, 1, 1, 2>>]

\* parseInt(digits, radix)
RECURSIVE ParseInt(_, _)
ParseInt(digits, radix) ==
    IF digits = <<>> THEN 0
    ELSE ParseInt(SubSeq(digits, 1, Len(digits) - 1), radix) * radix + digits[Len(digits)]

\* the UTF-16 code units of String.fromCodePoint(codePoint), for a code
\* point up to 0x10FFFF: one unit, or a surrogate pair above 0xFFFF. A code
\* point in 0xD800..0xDFFF gives that one unit, a lone surrogate.
CodeUnits(codePoint) ==
    IF codePoint <= 65535 THEN <<codePoint>>
    ELSE <<55296 + ((codePoint - 65536) \div 1024), 56320 + ((codePoint - 65536) % 1024)>>

\* the token that stands for a string of code units
CharToken(units) ==
    CASE units = <<65>> -> "A"
      [] units = <<38>> -> "&"
      [] Len(units) = 1 /\ units[1] \notin {65, 38} -> "\\u" \o ToString(units[1])
      [] OTHER -> "\\u" \o ToString(units[1]) \o "\\u" \o ToString(units[2])

\* try { return String.fromCodePoint(codePoint) } catch { return
\* String.fromCharCode(codePoint > 0xFFFF ? 0xFFFD : codePoint) }
\* (facebookMetadata.ts:278-284, 288-294): fromCodePoint throws a RangeError
\* exactly for a code point above 0x10FFFF
FromCodePoint(codePoint) ==
    IF codePoint > 1114111
    THEN CharToken(<<(IF codePoint > 65535 THEN 65533 ELSE codePoint) % 65536>>)
    ELSE CharToken(CodeUnits(codePoint))

\* .replace(/&#x([0-9a-fA-F]+);/gi, ...) and .replace(/&#(\d+);/g, ...): one
\* scan from left to right over the references of one radix; what a
\* replacement puts is not scanned again
RECURSIVE ReplaceNumeric(_, _, _)
ReplaceNumeric(text, digits, radix) ==
    IF text = <<>> THEN <<>>
    ELSE IF \E n \in DOMAIN digits : Head(text) = "&" \o n
         THEN LET n == CHOOSE n \in DOMAIN digits : Head(text) = "&" \o n
              IN  <<FromCodePoint(ParseInt(digits[n], radix))>>
                     \o ReplaceNumeric(Tail(text), digits, radix)
         ELSE IF Len(text) >= 2 /\ text[1] = "&" /\ text[2] \in DOMAIN digits
              THEN <<FromCodePoint(ParseInt(digits[text[2]], radix))>>
                      \o ReplaceNumeric(SubSeq(text, 3, Len(text)), digits, radix)
              ELSE <<Head(text)>> \o ReplaceNumeric(Tail(text), digits, radix)

\* decodeHtmlEntities (facebookMetadata.ts:265-296): the replacements run one
\* after the other over the whole text, in the order of the source
decodeHtmlEntities(text) ==
    LET t1 == ReplaceEntity(text, "amp;", "&")
        t2 == ReplaceEntity(t1, "lt;", "<")
        t3 == ReplaceEntity(t2, "gt;", ">")
        t4 == ReplaceEntity(t3, "quot;", "\"")
        t5 == ReplaceEntity(t4, "apos;", "'")
        t6 == ReplaceEntity(t5, "#039;", "'")
        t7 == ReplaceEntity(t6, "#39;", "'")
        t8 == ReplaceEntity(t7, "nbsp;", " ")
        t9 == ReplaceNumeric(t8, HexDigits, 16)
    IN  ReplaceNumeric(t9, DecDigits, 10)

WhitespaceTokens == {" ", "\n", "\t"}

\* .replace(/\s+/g, ' '): every run of whitespace becomes one space
RECURSIVE CollapseWhitespace(_)
CollapseWhitespace(text) ==
    IF text = <<>> THEN <<>>
    ELSE IF Head(text) \in WhitespaceTokens
         THEN <<" ">> \o CollapseWhitespace(
                  SubSeq(text, 1 + LeadingIn(text, WhitespaceTokens), Len(text)))
         ELSE <<Head(text)>> \o CollapseWhitespace(Tail(text))

\* .trim()
Trim(text) ==
    LET keep == {i \in 1..Len(text) : text[i] \notin WhitespaceTokens}
    IN  IF keep = {} THEN <<>>
        ELSE SubSeq(text, CHOOSE i \in keep : \A j \in keep : i <= j,
                          CHOOSE i \in keep : \A j \in keep : i >= j)

\* cleanEscapeSequences (facebookMetadata.ts:248-258)
cleanEscapeSequences(text) ==
    LET t1 == ReplaceToken(text, "\\n", <<" ">>)
        t2 == ReplaceToken(t1, "\\t", <<" ">>)
        t3 == ReplaceToken(t2, "\\r", <<>>)
        t4 == ReplaceToken(t3, "\\\"", <<"\"">>)
        t5 == ReplaceToken(t4, "\\'", <<"'">>)
        t6 == ReplaceToken(t5, "\\\\", <<"\\">>)
    IN  Trim(CollapseWhitespace(t6))

(***************************************************************************)
(* extractMetadataFromHtml (facebookMetadata.ts:17-99)                     *)
(*                                                                         *)
(* A page is the HTML document seen through the patterns of the extractor: *)
(* for each <meta property="og:..." content="..."> tag the text between    *)
(* content=" and the closing quote of the tag, the text of <title>, and    *)
(* the profile_picture blobs of the embedded JSON in document order.       *)
(***************************************************************************)
QuoteTokens == {"\"", "'"}

\* content=["']([^"']+)["']: the capture stops at the first quote of either
\* kind, and is not empty
CaptureContent(raw) ==
    IF raw = Undefined THEN Undefined
    ELSE LET text == TheText(raw)
             n    == LeadingIn(text, {t \in Range(text) : t \notin QuoteTokens})
         IN  IF n = 0 THEN Undefined ELSE Some(SubSeq(text, 1, n))

\* <title>([^<]+)<\/title>
CaptureTitleTag(raw) ==
    IF raw = Undefined \/ raw = Some(<<>>) THEN Undefined
    ELSE IF \E i \in 1..Len(TheText(raw)) : TheText(raw)[i] = "<" THEN Undefined
         ELSE raw

\* the three profilePicPatterns, tried in order; the first that matches wins
\* and each matches the first blob of the document it fits
FirstBlob(blobs, contexts) ==
    LET hits == {i \in 1..Len(blobs) : blobs[i].context \in contexts /\ blobs[i].uri # <<>>}
    IN  IF hits = {} THEN Undefined
        ELSE Some(blobs[CHOOSE i \in hits : \A j \in hits : i <= j].uri)

ProfilePicMatch(blobs) ==
    LET p1 == FirstBlob(blobs, {",actors"})
        p2 == FirstBlob(blobs, {",actors", "actors"})
        p3 == FirstBlob(blobs, {",actors", "actors", "bare"})
    IN  IF p1 # Undefined THEN p1 ELSE IF p2 # Undefined THEN p2 ELSE p3

\* .replace(/\\\//g, '/').replace(/\\u([0-9a-fA-F]{4})/gi, ...)
DecodeProfilePic(uri) ==
    ReplaceToken(ReplaceToken(uri, "\\/", <<"/">>), "\\u0026", <<"&">>)

MapOpt(opt, text) == IF opt = Undefined THEN Undefined ELSE Some(text)

\* the value null of FacebookMetadata | null
Null == [null |-> TRUE]

\* metadata.image after lines 32-64: og:image if it was captured, else the
\* profile picture if one was found
MergeImagePreferPicture(ogImage, profilePic) ==
    IF profilePic # Undefined THEN profilePic ELSE ogImage

MergeImage(ogImage, profilePic) ==
    IF profilePic # Undefined /\ ~Truthy(ogImage) THEN profilePic ELSE ogImage

\* the metadata object as it stands at line 92, before the validity gate
ExtractedFields(html, url) ==
    LET titleMatch == CaptureContent(html.ogTitle)
        descMatch  == CaptureContent(html.ogDescription)
        imageMatch == CaptureContent(html.ogImage)
        picMatch   == ProfilePicMatch(html.profilePictures)
        urlMatch   == CaptureContent(html.ogUrl)
        siteMatch  == CaptureContent(html.ogSiteName)
        typeMatch  == CaptureContent(html.ogType)
        ogTitle == IF titleMatch = Undefined THEN Undefined
                   ELSE Some(cleanEscapeSequences(decodeHtmlEntities(TheText(titleMatch))))
        description == IF descMatch = Undefined THEN Undefined
                       ELSE Some(cleanEscapeSequences(decodeHtmlEntities(TheText(descMatch))))
        ogImage == IF imageMatch = Undefined THEN Undefined
                   ELSE Some(decodeHtmlEntities(TheText(imageMatch)))
        profilePic == IF picMatch = Undefined THEN Undefined
                      ELSE Some(DecodeProfilePic(TheText(picMatch)))
        \* metadata.thumbnail = profilePic; if (!metadata.image) metadata.image = profilePic
        image == MergeImage(ogImage, profilePic)
        ogUrl == IF urlMatch = Undefined THEN Undefined
                 ELSE Some(decodeHtmlEntities(TheText(urlMatch)))
        siteName == IF siteMatch = Undefined THEN Undefined
                    ELSE Some(decodeHtmlEntities(TheText(siteMatch)))
        \* if (!metadata.title) { regularTitleMatch ... }
        titleTag == CaptureTitleTag(html.titleTag)
        title == IF Truthy(ogTitle) \/ titleTag = Undefined THEN ogTitle
                 ELSE Some(cleanEscapeSequences(decodeHtmlEntities(TheText(titleTag))))
    IN  [title |-> title, description |-> description,
         image |-> image, thumbnail |-> profilePic,
         url |-> ogUrl, siteName |-> siteName, type |-> typeMatch]

\* metadata.title || metadata.description
HasTitleOrDescriptionDefined(metadata) ==
    metadata.title # Undefined \/ metadata.description # Undefined

HasTitleOrDescription(metadata) ==
    Truthy(metadata.title) \/ Truthy(metadata.description)

\* metadata.url = metadata.url || url
WithUrl(metadata, url) ==
    [metadata EXCEPT !.url = IF Truthy(metadata.url) THEN metadata.url ELSE Some(url)]

extractMetadataFromHtmlNoGate(html, url) == WithUrl(ExtractedFields(html, url), url)

extractMetadataFromHtml(html, url) ==
    LET metadata == ExtractedFields(html, url)
    IN  IF HasTitleOrDescription(metadata) THEN WithUrl(metadata, url) ELSE Null

(***************************************************************************)
(* The KV namespace and JSON (facebookMetadata.ts:145-147, 229-231)        *)
(***************************************************************************)
MetadataKeys == {"title", "description", "image", "thumbnail", "url", "siteName", "type"}

\* await cache.get(key) resolved with null
Absent == [kind |-> "absent", fields |-> {}]

\* a stored string that is not JSON
Garbage == [kind |-> "garbage", fields |-> {}]

\* JSON.stringify(metadata): the defined properties only
JsonStringify(metadata) ==
    [kind |-> "json",
     fields |-> {<<k, TheText(metadata[k])>> : k \in {j \in MetadataKeys : metadata[j] # Undefined}}]

\* JSON.parse(cached) as FacebookMetadata, for a string that is JSON
JsonParse(value) ==
    [k \in MetadataKeys |->
        IF \E f \in value.fields : f[1] = k
        THEN Some((CHOOSE f \in value.fields : f[1] = k)[2])
        ELSE Undefined]

\* if (cached): a non-empty string
IsCacheHit(value) == value.kind # "absent"

EXPIRATION_TTL == 3600

(***************************************************************************)
(* The embed (discordEmbed.ts:13-95)                                       *)
(***************************************************************************)
\* the properties of LinkMetadata that createRichPreviewEmbed reads
LinkMetadataKeys == MetadataKeys \cup {"articleUrl", "articleTitle"}

\* a metadata object as createRichPreviewEmbed sees it: a property that is
\* missing reads as undefined
AsLinkMetadata(metadata) ==
    [k \in LinkMetadataKeys |-> IF k \in DOMAIN metadata THEN metadata[k] ELSE Undefined]

\* providerConfig?.color ?? 0x1877f2
DefaultColor == 1603570

\* new URL(metadata.articleUrl).hostname.replace(/^www\./, ''), undefined
\* when there is no article URL or it does not parse
ArticleDomain(metadata) ==
    IF ~Truthy(metadata.articleUrl) \/ ~UrlParses(TheText(metadata.articleUrl))
    THEN Undefined
    ELSE LET hostname == UrlHost(TheText(metadata.articleUrl))
         IN  Some(IF hostname # <<>> /\ Head(hostname) = "www." THEN Tail(hostname)
                  ELSE hostname)

\* embed.thumbnail.url (discordEmbed.ts:56-60)
EmbedThumbnail(metadata) ==
    IF Truthy(metadata.thumbnail) THEN metadata.thumbnail ELSE Undefined

\* embed.image.url (discordEmbed.ts:63-72)
EmbedImageWheneverPresent(metadata) ==
    IF Truthy(metadata.image) THEN metadata.image ELSE Undefined

EmbedImage(metadata) ==
    IF Truthy(metadata.image) /\ metadata.image # metadata.thumbnail
    THEN metadata.image
    ELSE IF Truthy(metadata.image) /\ ~Truthy(metadata.thumbnail)
         THEN metadata.image
         ELSE Undefined

\* createRichPreviewEmbed(metadata, originalUrl, { color }), without its
\* timestamp (the time of the call); a description of the model is shorter
\* than the 4096 characters after which it is cut
createRichPreviewEmbed(metadata, originalUrl, color) ==
    LET article == Truthy(metadata.articleUrl) /\ Truthy(metadata.articleTitle)
        articleDomain == ArticleDomain(metadata)
    IN  [type |-> "rich",
         color |-> color,
         title |-> IF article THEN metadata.articleTitle
                   ELSE IF Truthy(metadata.title) THEN metadata.title ELSE Undefined,
         url |-> IF article THEN metadata.articleUrl
                 ELSE IF Truthy(metadata.url) THEN metadata.url ELSE Some(originalUrl),
         description |-> IF Truthy(metadata.description) THEN metadata.description
                         ELSE Undefined,
         thumbnail |-> EmbedThumbnail(metadata),
         image |-> EmbedImage(metadata),
         footer |-> IF Truthy(metadata.articleUrl) /\ Truthy(articleDomain)
                    THEN articleDomain
                    ELSE IF Truthy(metadata.siteName) THEN metadata.siteName
                    ELSE Undefined]

(***************************************************************************)
(* Inputs of the model                                                     *)
(***************************************************************************)
UrlWww == <<"https://", "www.", "facebook.com", "/posts/1">>

UrlApex == <<"https://", "facebook.com", "/posts/1">>

UrlShare == <<"https://", "m.", "facebook.com", "/share/", "p1">>

\* the same share link on the www host: what UrlShare is normalised to
UrlShareWww == <<"https://", "www.", "facebook.com", "/share/", "p1">>

UrlOther == <<"https://", "example.com", "/posts/1">>

\* message.content
Contents ==
    { <<"hello">>,
      UrlOther,
      <<"see", " ">> \o UrlWww,
      UrlApex,
      UrlShare \o <<" ", "!">>,
      UrlWww \o <<" ">> \o UrlWww,
      UrlShareWww \o <<" ">> \o UrlShare }

\* a gateway event as onMessage reads it (bot.ts:44-71)
Message(event, authorIsBot, channel, hasId, content) ==
    [event |-> event, authorIsBot |-> authorIsBot, channel |-> channel,
     hasId |-> hasId, content |-> content]

\* the events delivered to onMessage: user messages in one channel, a
\* message in another, and one event for each of the other guards
Messages ==
    {Message("MESSAGE_CREATE", FALSE, "c1", TRUE, content) : content \in Contents}
    \cup {Message("MESSAGE_CREATE", FALSE, "c2", TRUE, UrlWww),
          Message("MESSAGE_UPDATE", FALSE, "c1", TRUE, UrlWww),
          Message("MESSAGE_CREATE", TRUE, "c1", TRUE, UrlWww),
          Message("MESSAGE_CREATE", FALSE, NoChannel, TRUE, UrlWww),
          Message("MESSAGE_CREATE", FALSE, "c1", FALSE, UrlWww)}

\* the URLs a pipeline can be started for, and their cache keys
CandidateUrls == {UrlWww, UrlApex, UrlShare, UrlShareWww}

CacheKeys ==
    {getCacheKey(UrlWww), getCacheKey(UrlApex), getCacheKey(UrlShare),
     getCacheKey(UrlShareWww)}

NoPictures == <<>>

PageFull ==
    [ogTitle |-> Some(<<"Tom", " ", "&amp;", " ", "Jerry">>),
     ogDescription |-> Some(<<"A", "\\n", "B">>),
     ogImage |-> Some(<<"https://", "cdn", "/i?a=1", "&amp;", "b=2">>),
     profilePictures |-> NoPictures,
     ogUrl |-> Undefined, ogSiteName |-> Some(<<"Facebook">>),
     ogType |-> Some(<<"article">>), titleTag |-> Some(<<"Facebook">>)]

PageDescription ==
    [ogTitle |-> Undefined,
     ogDescription |-> Some(<<"Log", " ", "in">>),
     ogImage |-> Undefined,
     profilePictures |-> <<[context |-> "bare", uri |-> <<"https:", "\\/", "\\/", "cdn", "\\/", "p">>]>>,
     ogUrl |-> Some(<<"https://", "www.", "facebook.com", "/canonical">>),
     ogSiteName |-> Undefined, ogType |-> Undefined, titleTag |-> Undefined]

PageBlank ==
    [ogTitle |-> Some(<<" ">>),
     ogDescription |-> Undefined,
     ogImage |-> Some(<<"https://", "cdn", "/i">>),
     profilePictures |-> NoPictures,
     ogUrl |-> Some(<<"https://", "www.", "facebook.com", "/login">>),
     ogSiteName |-> Some(<<"Facebook">>), ogType |-> Undefined,
     titleTag |-> Some(<<"\\r", " ">>)]

\* the documents the server may answer with
Pages == {PageFull, PageDescription, PageBlank}

\* response.status
Statuses == {200, 400, 401, 403, 404, 500}

\* response.ok
ResponseOk(status) == status >= 200 /\ status <= 299

\* response.status === 400 || response.status === 403 || response.status === 401
IsBlockedStatus(status) == status = 400 \/ status = 403 \/ status = 401

\* what fetch() rejects with: the abort by the 10000 ms timer of
\* fetchWithTimeout (lines 114-115), or a network error
FetchErrors == {"AbortError", "network"}

\* the catch of fetchWithTimeout (facebookMetadata.ts:124-130): what it throws
FetchRejection(error) == IF error = "AbortError" THEN "timeout" ELSE error

\* how a fetch (fetchWithTimeout) can end without a response
FetchFailures == {FetchRejection(error) : error \in FetchErrors}

(***************************************************************************)
(* DiscordBot.isRateLimited (bot.ts:230-246)                               *)
(***************************************************************************)
\* ts => now - ts < this.RATE_LIMIT_WINDOW_MS
InWindowLoose(now, ts) == now - ts <= RATE_LIMIT_WINDOW_MS

InWindow(now, ts) == now - ts < RATE_LIMIT_WINDOW_MS

\* timestamps.filter(ts => now - ts < this.RATE_LIMIT_WINDOW_MS)
RecentTimestamps(timestamps, now) ==
    SelectSeq(timestamps, LAMBDA ts : InWindow(now, ts))

\* recentTimestamps.length >= this.RATE_LIMIT_MAX_REQUESTS
OverLimitLoose(recent) == Len(recent) > RATE_LIMIT_MAX_REQUESTS

OverLimit(recent) == Len(recent) >= RATE_LIMIT_MAX_REQUESTS

\* the return value of isRateLimited(channelId) at time now
RateLimited(timestamps, now) == OverLimit(RecentTimestamps(timestamps, now))

\* the array stored under channelId when isRateLimited returns
TimestampsAfterCheckAlwaysRecord(timestamps, now) ==
    Append(RecentTimestamps(timestamps, now), now)

TimestampsAfterCheckUnpruned(timestamps, now) ==
    IF RateLimited(timestamps, now) THEN timestamps
    ELSE Append(timestamps, now)

TimestampsAfterCheck(timestamps, now) ==
    IF RateLimited(timestamps, now) THEN timestamps
    ELSE Append(RecentTimestamps(timestamps, now), now)

\* one call of isRateLimited(c): the whole method runs without suspension
isRateLimited(c) ==
    LET before  == rateLimitTimestamps[c]
        limited == RateLimited(before, clock)
    IN  /\ rateLimitTimestamps' =
              [rateLimitTimestamps EXCEPT ![c] = TimestampsAfterCheck(before, clock)]
        /\ lastCheck' = [channel |-> c, now |-> clock, limited |-> limited,
                         before |-> before, prior |-> admitted[c],
                         others |-> [d \in Channels \ {c} |-> rateLimitTimestamps[d]]]
        /\ admitted' = IF limited THEN admitted
                       ELSE [admitted EXCEPT ![c] = Append(@, clock)]
        /\ refused' = IF limited THEN [refused EXCEPT ![c] = @ + 1] ELSE refused
        /\ checks' = checks + 1

(***************************************************************************)
(* fetchFacebookMetadata (facebookMetadata.ts:136-243) and the per-URL     *)
(* task of onMessage (bot.ts:103-143).                                     *)
(*                                                                         *)
(* A task runs without interruption from one await to the next; each       *)
(* action below is the completion of the awaited operation named by pc,    *)
(* with its outcome, followed by the code up to the next await. lastEvent  *)
(* records that completion: the operation, the task and the outcome.       *)
(***************************************************************************)
NoPage ==
    [ogTitle |-> Undefined, ogDescription |-> Undefined, ogImage |-> Undefined,
     profilePictures |-> NoPictures, ogUrl |-> Undefined, ogSiteName |-> Undefined,
     ogType |-> Undefined, titleTag |-> Undefined]

\* no gateway event
NoMessage == Message("none", FALSE, NoChannel, FALSE, <<>>)

\* outcome: "ok" (resolved), or how it was rejected: "error", "network",
\* "timeout"; status, html and value are what it resolved with; message is
\* the gateway event a call of onMessage was given
Event(op, m, i, outcome) ==
    [op |-> op, m |-> m, i |-> i, outcome |-> outcome,
     status |-> 0, html |-> NoPage, value |-> Absent, message |-> NoMessage]

NoEvent == Event("none", 0, 0, "ok")

\* the task just created by facebookUrls.map(async (url) => ...)
NewTask(url) ==
    [url |-> url, pc |-> "start", requests |-> <<>>, puts |-> <<>>,
     returned |-> "pending", metadata |-> Null,
     replies |-> <<>>, settled |-> "pending"]

\* bot.ts:110-128: the task continues with the value the pipeline returned
Return(h, t, value) ==
    IF value = Null \/ ~HasTitleOrDescription(value)
    THEN [t EXCEPT !.returned = "value", !.metadata = value,
                   !.pc = "settled", !.settled = "fulfilled"]
    ELSE [t EXCEPT !.returned = "value", !.metadata = value,
                   !.pc = "reply",
                   !.replies = Append(@, [channel |-> h.channel, message |-> h.id])]

\* the pipeline rejects: the catch of bot.ts:136-142 rethrows
Raise(t) ==
    [t EXCEPT !.returned = "raised", !.metadata = Null,
              !.pc = "settled", !.settled = "rejected"]

\* facebookMetadata.ts:155-186: normalise and issue the primary fetch
StartPrimaryFetch(t) ==
    [t EXCEPT !.pc = "primaryFetch",
              !.requests = Append(@, NormalizeUrl(t.url))]

\* facebookMetadata.ts:141-153: the start of the pipeline
StartPipeline(t) ==
    IF cache THEN [t EXCEPT !.pc = "cacheGet"]
    ELSE StartPrimaryFetch(t)

\* where an exception thrown at a site of the pipeline is caught, and what
\* the pipeline does next
CatchRethrowing(h, t, site) ==
    CASE site \in {"cacheGet", "jsonParse"} -> StartPrimaryFetch(t)
      [] site = "cachePut" -> Return(h, t, t.metadata)
      [] site \in {"mobileFetch", "mobileBody"} -> Return(h, t, Null)
      [] OTHER -> Raise(t)

CatchFallingBack(h, t, site) ==
    CASE site \in {"cacheGet", "jsonParse"} -> StartPrimaryFetch(t)
      [] site = "cachePut" -> Return(h, t, t.metadata)
      [] site = "primaryFetch" ->
            [t EXCEPT !.pc = "mobileFetch",
                      !.requests = Append(@, MobileUrl(t.requests[1]))]
      [] OTHER -> Return(h, t, Null)

CatchLosingResult(h, t, site) ==
    CASE site \in {"cacheGet", "jsonParse"} -> StartPrimaryFetch(t)
      [] OTHER -> Return(h, t, Null)

CatchWithoutInnerTry(h, t, site) ==
    CASE site = "cachePut" -> Return(h, t, t.metadata)
      [] site \in {"mobileFetch", "mobileBody"} -> Return(h, t, Null)
      [] OTHER -> Return(h, t, Null)

Catch(h, t, site) ==
    CASE site \in {"cacheGet", "jsonParse"} -> StartPrimaryFetch(t)   \* lines 149-152
      [] site = "cachePut" -> Return(h, t, t.metadata)                \* lines 232-235
      [] site \in {"mobileFetch", "mobileBody"} -> Return(h, t, Null) \* lines 214-219
      [] OTHER -> Return(h, t, Null)                                  \* lines 239-242

\* await cache.get(cacheKey) has resolved with value
AfterCacheGet(h, t, value) ==
    IF ~IsCacheHit(value) THEN StartPrimaryFetch(t)
    ELSE IF value.kind = "garbage" THEN Catch(h, t, "jsonParse")
         ELSE Return(h, t, JsonParse(value))

\* await fetchWithTimeout(normalizedUrl, ...) has resolved with a response
AfterPrimaryResponse(h, t, status) ==
    IF ResponseOk(status) THEN [t EXCEPT !.pc = "primaryBody"]
    ELSE IF IsBlockedStatus(status)
         THEN [t EXCEPT !.pc = "mobileFetch",
                        !.requests = Append(@, MobileUrl(t.requests[1]))]
         ELSE Return(h, t, Null)

\* await response.text() has resolved with html: extract, then write the cache
AfterPrimaryBodyVaryingTtl(h, t, html) ==
    LET metadata == extractMetadataFromHtml(html, t.requests[1])
    IN  IF metadata # Null /\ cache
        THEN [t EXCEPT !.pc = "cachePut", !.metadata = metadata,
                       !.puts = Append(@, [key |-> getCacheKey(t.url),
                                           value |-> JsonStringify(metadata),
                                           expirationTtl |->
                                              IF metadata.title = Undefined THEN 60
                                              ELSE EXPIRATION_TTL])]
        ELSE Return(h, t, metadata)

AfterPrimaryBody(h, t, html) ==
    LET metadata == extractMetadataFromHtml(html, t.requests[1])
    IN  IF metadata # Null /\ cache
        THEN [t EXCEPT !.pc = "cachePut", !.metadata = metadata,
                       !.puts = Append(@, [key |-> getCacheKey(t.url),
                                           value |-> JsonStringify(metadata),
                                           expirationTtl |-> EXPIRATION_TTL])]
        ELSE Return(h, t, metadata)

\* await fetchWithTimeout(mobileUrl, ...) has resolved with a response
AfterMobileResponse(h, t, status) ==
    IF ResponseOk(status) THEN [t EXCEPT !.pc = "mobileBody"]
    ELSE Return(h, t, Null)

\* await mobileResponse.text() has resolved with html
AfterMobileBody(h, t, html) ==
    Return(h, t, extractMetadataFromHtml(html, t.requests[2]))

Task(m, i) == handlers[m].tasks[i]

Running(m, i, pc) ==
    /\ handlers[m].phase = "tasks"
    /\ i \in 1..Len(handlers[m].tasks)
    /\ Task(m, i).pc = pc

SetTaskWithRefund(m, i, t, event) ==
    /\ handlers' = [handlers EXCEPT ![m].tasks[i] = t]
    /\ lastEvent' = event
    /\ rateLimitTimestamps' =
          [rateLimitTimestamps EXCEPT ![handlers[m].channel] =
              IF t.pc = "settled" /\ t.metadata = Null /\ @ # <<>>
              THEN SubSeq(@, 1, Len(@) - 1) ELSE @]
    /\ UNCHANGED <<clock, lastCheck, admitted, refused, checks, messageHelper, cache, call>>

SetTask(m, i, t, event) ==
    /\ handlers' = [handlers EXCEPT ![m].tasks[i] = t]
    /\ lastEvent' = event
    /\ UNCHANGED <<limiterVars, messageHelper, cache, call>>

CacheGetDone(m, i) ==
    /\ Running(m, i, "cacheGet")
    /\ LET h == handlers[m]
           t == Task(m, i)
           value == store[getCacheKey(t.url)]
       IN  \/ SetTask(m, i, AfterCacheGet(h, t, value),
                      [Event("cacheGet", m, i, "ok") EXCEPT !.value = value])
           \/ SetTask(m, i, Catch(h, t, "cacheGet"), Event("cacheGet", m, i, "error"))
    /\ UNCHANGED store

PrimaryFetchDone(m, i) ==
    /\ Running(m, i, "primaryFetch")
    /\ LET h == handlers[m]
           t == Task(m, i)
       IN  \/ \E status \in Statuses :
                 SetTask(m, i, AfterPrimaryResponse(h, t, status),
                         [Event("primaryFetch", m, i, "ok") EXCEPT !.status = status])
           \/ \E failure \in FetchFailures :
                 SetTask(m, i, Catch(h, t, "primaryFetch"),
                         Event("primaryFetch", m, i, failure))
    /\ UNCHANGED store

PrimaryBodyDone(m, i) ==
    /\ Running(m, i, "primaryBody")
    /\ LET h == handlers[m]
           t == Task(m, i)
       IN  \/ \E html \in Pages :
                 SetTask(m, i, AfterPrimaryBody(h, t, html),
                         [Event("primaryBody", m, i, "ok") EXCEPT !.html = html])
           \/ SetTask(m, i, Catch(h, t, "primaryBody"),
                      Event("primaryBody", m, i, "error"))
    /\ UNCHANGED store

\* the namespace after cache.put(key, value, ...) has resolved
StoreAfterPutIfAbsent(st, put) ==
    IF st[put.key].kind = "absent" THEN [st EXCEPT ![put.key] = put.value] ELSE st

StoreAfterPut(st, put) == [st EXCEPT ![put.key] = put.value]

CachePutDone(m, i) ==
    /\ Running(m, i, "cachePut")
    /\ LET h == handlers[m]
           t == Task(m, i)
           put == t.puts[Len(t.puts)]
       IN  \/ /\ store' = StoreAfterPut(store, put)
              /\ SetTask(m, i, Return(h, t, t.metadata), Event("cachePut", m, i, "ok"))
           \/ /\ UNCHANGED store
              /\ SetTask(m, i, Catch(h, t, "cachePut"), Event("cachePut", m, i, "error"))

MobileFetchDone(m, i) ==
    /\ Running(m, i, "mobileFetch")
    /\ LET h == handlers[m]
           t == Task(m, i)
       IN  \/ \E status \in Statuses :
                 SetTask(m, i, AfterMobileResponse(h, t, status),
                         [Event("mobileFetch", m, i, "ok") EXCEPT !.status = status])
           \/ \E failure \in FetchFailures :
                 SetTask(m, i, Catch(h, t, "mobileFetch"),
                         Event("mobileFetch", m, i, failure))
    /\ UNCHANGED store

MobileBodyDone(m, i) ==
    /\ Running(m, i, "mobileBody")
    /\ LET h == handlers[m]
           t == Task(m, i)
       IN  \/ \E html \in Pages :
                 SetTask(m, i, AfterMobileBody(h, t, html),
                         [Event("mobileBody", m, i, "ok") EXCEPT !.html = html])
           \/ SetTask(m, i, Catch(h, t, "mobileBody"),
                      Event("mobileBody", m, i, "error"))
    /\ UNCHANGED store

\* await messageHelper.reply(...) has resolved, or thrown (bot.ts:124-142)
ReplyDone(m, i) ==
    /\ Running(m, i, "reply")
    /\ \E outcome \in {"ok", "error"} :
          SetTask(m, i, [Task(m, i) EXCEPT !.pc = "settled",
                            !.settled = IF outcome = "ok" THEN "fulfilled" ELSE "rejected"],
                  Event("reply", m, i, outcome))
    /\ UNCHANGED store

\* the KV namespace drops an entry whose expirationTtl has passed
Expire(k) ==
    /\ store[k].kind = "json"
    /\ store' = [store EXCEPT ![k] = Absent]
    /\ lastEvent' = Event("expire", 0, 0, "ok")
    /\ UNCHANGED <<limiterVars, messageHelper, cache, handlers, call>>

(***************************************************************************)
(* The gateway callbacks (bot.ts:39-155) and suppressEmbeds (179-225)      *)
(***************************************************************************)
MessageIds == 1..MaxMessages

IdleHandler ==
    [phase |-> "idle", channel |-> NoChannel, id |-> 0, urls |-> <<>>,
     tasks |-> <<>>]

\* the Facebook URLs of the messages handled so far
RECURSIVE UrlCount(_)
UrlCount(m) == IF m = 0 THEN 0 ELSE Len(handlers[m].urls) + UrlCount(m - 1)

\* onReady (bot.ts:39-42)
OnReady ==
    /\ ~messageHelper
    /\ messageHelper' = TRUE
    /\ lastEvent' = Event("ready", 0, 0, "ok")
    /\ UNCHANGED <<limiterVars, cache, store, handlers, call>>

\* the guards of onMessage before the rate limit check (bot.ts:44-78)
PassesGuardsBeforeReady(message, facebookUrls) ==
    /\ message.event = "MESSAGE_CREATE"
    /\ ~(message.authorIsBot \/ message.channel = NoChannel)
    /\ message.hasId
    /\ Len(facebookUrls) # 0

PassesGuards(message, facebookUrls) ==
    /\ message.event = "MESSAGE_CREATE"
    /\ ~(message.authorIsBot \/ message.channel = NoChannel \/ ~messageHelper)
    /\ message.hasId
    /\ Len(facebookUrls) # 0

\* if (this.isRateLimited(channelId)) { ...; return; } (bot.ts:83-86): where
\* the handler stands after the check
PhaseAfterCheckQueued(limited) == "delay"

PhaseAfterCheck(limited) == IF limited THEN "denied" ELSE "delay"

\* the gateway events that may be delivered: those of Messages, or the one
\* event picked at the start of a run of SpecTexts
Delivered == IF call.fn = "onMessage" THEN {call.args[1]} ELSE Messages

\* onMessage up to its first await (bot.ts:43-91): the guards, the URL
\* extraction and the rate limit check run without suspension
OnMessage(m) ==
    /\ handlers[m].phase = "idle"
    /\ \A n \in MessageIds : n < m => handlers[n].phase # "idle"
    /\ \E message \in Delivered :
         LET facebookUrls == extractFacebookUrls(message.content)
             channel == message.channel
         IN  IF ~PassesGuards(message, facebookUrls)
             THEN /\ handlers' = [handlers EXCEPT ![m].phase = "ignored"]
                  /\ lastEvent' = [Event("message", m, 0, "ignored")
                                      EXCEPT !.message = message]
                  /\ UNCHANGED limiterVars
             ELSE /\ UrlCount(MaxMessages) + Len(facebookUrls) <= MaxTasks
                  /\ isRateLimited(channel)
                  /\ UNCHANGED clock
                  /\ LET limited == RateLimited(rateLimitTimestamps[channel], clock)
                     IN  /\ handlers' = [handlers EXCEPT ![m] =
                               [phase |-> PhaseAfterCheck(limited),
                                channel |-> channel, id |-> m, urls |-> facebookUrls,
                                tasks |-> <<>>]]
                         /\ lastEvent' =
                               [Event("message", m, 0,
                                      IF limited THEN "denied" ELSE "admitted")
                                   EXCEPT !.message = message]
    /\ UNCHANGED <<messageHelper, cache, store, call>>

\* facebookUrls.map(async (url) => ...): every task runs to its first await
LaunchTasks(urls) == [i \in 1..Len(urls) |-> StartPipeline(NewTask(urls[i]))]

\* await new Promise(resolve => setTimeout(resolve, 600)) has resolved and
\* suppressEmbeds is called (bot.ts:90-92)
DelayElapsedLaunching(m) ==
    /\ handlers[m].phase = "delay"
    /\ handlers' = [handlers EXCEPT ![m].phase = "suppress",
                                    ![m].tasks = LaunchTasks(handlers[m].urls)]
    /\ lastEvent' = Event("delay", m, 0, "ok")
    /\ UNCHANGED <<limiterVars, messageHelper, cache, store, call>>

DelayElapsed(m) ==
    /\ handlers[m].phase = "delay"
    /\ handlers' = [handlers EXCEPT ![m].phase = "suppress"]
    /\ lastEvent' = Event("delay", m, 0, "ok")
    /\ UNCHANGED <<limiterVars, messageHelper, cache, store, call>>

\* suppressEmbeds has returned or thrown (bot.ts:179-225); onMessage logs a
\* failure (bot.ts:92-97) and starts the tasks either way
SuppressEmbedsDone(m) ==
    /\ handlers[m].phase = "suppress"
    /\ handlers' = [handlers EXCEPT ![m].phase = "tasks",
                                    ![m].tasks = LaunchTasks(handlers[m].urls)]
    /\ \E outcome \in {"ok", "error"} : lastEvent' = Event("suppressEmbeds", m, 0, outcome)
    /\ UNCHANGED <<limiterVars, messageHelper, cache, store, call>>

\* when the promise of Promise.allSettled(tasks) resolves
AllOrFirstRejected(tasks) ==
    \/ \A i \in 1..Len(tasks) : tasks[i].settled # "pending"
    \/ \E i \in 1..Len(tasks) : tasks[i].settled = "rejected"

EverySettled(tasks) == \A i \in 1..Len(tasks) : tasks[i].settled # "pending"

\* results.forEach(...) (bot.ts:147-154): what onMessage logs about the
\* results of its tasks
LoggedResults(tasks) ==
    IF \E i \in 1..Len(tasks) : tasks[i].settled = "rejected" THEN "rejected" ELSE "ok"

\* how the promise of onMessage settles after the results (bot.ts:102-155)
PhaseAfterAll(tasks) ==
    IF \E i \in 1..Len(tasks) : tasks[i].settled = "rejected" THEN "rejected" ELSE "done"

PhaseAfterAllSettled(tasks) == "done"

\* await Promise.allSettled(...) has resolved (bot.ts:102-155): onMessage
\* logs the rejections and returns; its tasks are gone
AllSettled(m) ==
    /\ handlers[m].phase = "tasks"
    /\ EverySettled(handlers[m].tasks)
    /\ handlers' = [handlers EXCEPT ![m].phase = PhaseAfterAllSettled(handlers[m].tasks),
                                    ![m].tasks = <<>>]
    /\ lastEvent' = Event("allSettled", m, 0, LoggedResults(handlers[m].tasks))
    /\ UNCHANGED <<limiterVars, messageHelper, cache, store, call>>

(***************************************************************************)
(* The bot: the state after construction and its steps                     *)
(***************************************************************************)
EmptyStore == [k \in CacheKeys |-> Absent]

\* the KV namespace outlives the bot: it is empty, or holds a string that is
\* not JSON under a key
InitialStores ==
    {EmptyStore, [EmptyStore EXCEPT ![getCacheKey(UrlWww)] = Garbage]}

\* no function is being called on its own
NoCall == [fn |-> "none", args |-> <<>>, returned |-> FALSE, result |-> <<>>]

NoCheck ==
    [channel |-> NoChannel, now |-> 0, limited |-> FALSE,
     before |-> <<>>, prior |-> <<>>, others |-> [d \in {} |-> <<>>]]

Init ==
    /\ clock = 0
    /\ rateLimitTimestamps = [c \in Channels |-> <<>>]
    /\ lastCheck = NoCheck
    /\ admitted = [c \in Channels |-> <<>>]
    /\ refused = [c \in Channels |-> 0]
    /\ checks = 0
    /\ messageHelper = FALSE
    /\ cache \in BOOLEAN
    /\ store \in (IF cache THEN InitialStores ELSE {EmptyStore})
    /\ handlers = [m \in MessageIds |-> IdleHandler]
    /\ lastEvent = NoEvent
    /\ call = NoCall

Next ==
    \/ OnReady
    \/ \E m \in MessageIds :
          \/ OnMessage(m)
          \/ DelayElapsed(m)
          \/ SuppressEmbedsDone(m)
          \/ AllSettled(m)
          \/ \E i \in 1..MaxTasks :
                \/ CacheGetDone(m, i)
                \/ PrimaryFetchDone(m, i)
                \/ PrimaryBodyDone(m, i)
                \/ CachePutDone(m, i)
                \/ MobileFetchDone(m, i)
                \/ MobileBodyDone(m, i)
                \/ ReplyDone(m, i)
    \/ \E k \in CacheKeys : Expire(k)

Spec == Init /\ [][Next]_vars

(***************************************************************************)
(* The bot under the assumptions that the KV namespace answers and that    *)
(* the timer of fetchWithTimeout fires. The timer is armed when            *)
(* fetchWithTimeout is entered (line 115) and cleared when fetch() has     *)
(* resolved with the response or rejected (lines 122, 125): while it is    *)
(* armed the await ends, by the response or by the abort. The body reads   *)
(* (response.text(), lines 208 and 222) happen after clearTimeout and end  *)
(* only when the server completes the body.                                *)
(***************************************************************************)
\* the operations of a task during which the abort timer is armed
TimerArmed(op) == op \in {"primaryFetch", "mobileFetch"}

\* the awaited operations of the pipeline that are certain to end
PipelineFairness ==
    \A m \in MessageIds : \A i \in 1..MaxTasks :
        /\ WF_vars(CacheGetDone(m, i))
        /\ WF_vars(CachePutDone(m, i))
        /\ WF_vars(TimerArmed("primaryFetch") /\ PrimaryFetchDone(m, i))
        /\ WF_vars(TimerArmed("mobileFetch") /\ MobileFetchDone(m, i))
        /\ WF_vars(TimerArmed("primaryBody") /\ PrimaryBodyDone(m, i))
        /\ WF_vars(TimerArmed("mobileBody") /\ MobileBodyDone(m, i))

SpecLive == Init /\ [][Next]_vars /\ PipelineFairness

(***************************************************************************)
(* The limiter on its own: calls of isRateLimited from concurrently        *)
(* running onMessage handlers, in any order, under a non-decreasing clock. *)
(***************************************************************************)
LimiterInit ==
    /\ Init
    /\ cache
    /\ store = EmptyStore

\* Date.now() advances (it may also stay: no step)
ClockTick ==
    /\ clock < MaxTicks * TickMs
    /\ clock' = clock + TickMs
    /\ UNCHANGED <<rateLimitTimestamps, lastCheck, admitted, refused, checks>>
    /\ UNCHANGED <<pipelineVars, call>>

\* a handler that has passed the guards of onMessage calls isRateLimited
AdmissionCheck(c) ==
    /\ messageHelper
    /\ checks < MaxChecks
    /\ isRateLimited(c)
    /\ UNCHANGED clock
    /\ UNCHANGED <<pipelineVars, call>>

LimiterNext ==
    \/ OnReady
    \/ ClockTick
    \/ \E c \in Channels : AdmissionCheck(c)

SpecLimiter == LimiterInit /\ [][LimiterNext]_vars

(***************************************************************************)
(* The bot when channel c1 has used up its window: ten messages of c1 were *)
(* admitted at time 0 and their handlers have returned. The gateway then   *)
(* delivers further messages while the clock advances.                     *)
(***************************************************************************)
\* the channel that starts with RATE_LIMIT_MAX_REQUESTS admissions at time 0
BusyChannel == "c1"

BusyTimestamps == [i \in 1..RATE_LIMIT_MAX_REQUESTS |-> 0]

BusyInit ==
    /\ clock = 0
    /\ rateLimitTimestamps = [c \in Channels |-> IF c = BusyChannel THEN BusyTimestamps ELSE <<>>]
    /\ lastCheck = NoCheck
    /\ admitted = [c \in Channels |-> IF c = BusyChannel THEN BusyTimestamps ELSE <<>>]
    /\ refused = [c \in Channels |-> 0]
    /\ checks = RATE_LIMIT_MAX_REQUESTS
    /\ messageHelper = TRUE
    /\ cache \in BOOLEAN
    /\ store \in (IF cache THEN InitialStores ELSE {EmptyStore})
    /\ handlers = [m \in MessageIds |-> IdleHandler]
    /\ lastEvent = NoEvent
    /\ call = NoCall

BusyNext ==
    \/ ClockTick
    \/ \E m \in MessageIds :
          \/ OnMessage(m)
          \/ DelayElapsed(m)
          \/ SuppressEmbedsDone(m)
          \/ AllSettled(m)
          \/ \E i \in 1..MaxTasks :
                \/ CacheGetDone(m, i)
                \/ PrimaryFetchDone(m, i)
                \/ PrimaryBodyDone(m, i)
                \/ CachePutDone(m, i)
                \/ MobileFetchDone(m, i)
                \/ MobileBodyDone(m, i)
                \/ ReplyDone(m, i)
    \/ \E k \in CacheKeys : Expire(k)

SpecBusy == BusyInit /\ [][BusyNext]_vars

(***************************************************************************)
(* The functions on their own: one call of a function of                   *)
(* facebookMetadata.ts with an argument drawn from a bounded set.          *)
(***************************************************************************)
\* the sequences over S of length up to n
SeqsUpTo(S, n) == UNION {[1..k -> S] : k \in 0..n}

\* message texts: up to MaxTextLen tokens
MaxTextLen == 6

TextTokens == {"https://", "m.", "facebook.com", "example.com", " ", "/p"}

Texts == SeqsUpTo(TextTokens, MaxTextLen)

\* strings given as a URL: up to MaxUrlLen tokens
MaxUrlLen == 4

UrlTokens == SchemeTokens \cup LabelTokens \cup DomainTokens \cup {"/p", "/share/"}

Urls == SeqsUpTo(UrlTokens, MaxUrlLen)

\* texts with character references: up to MaxEntityLen tokens
MaxEntityLen == 3

EntityTokens ==
    {"a", "&", "&amp;", "amp;", "&lt;", "lt;", "&#39;", "&#x26;", "#65;",
     "&#x41;", "&#65;", "&#x1F600;", "&#128512;", "&#xD800;", "&#57343;",
     "&#x110000;", "&#1114112;"}

EntityTexts == SeqsUpTo(EntityTokens, MaxEntityLen)

\* documents: every combination of a few forms of each tag
PicBare == [context |-> "bare", uri |-> <<"https:", "\\/", "\\/", "cdn", "\\/", "p">>]

PicActors == [context |-> ",actors", uri |-> <<"https:", "\\/", "\\/", "cdn", "\\/", "q">>]

Documents ==
    [ogTitle : {Undefined, Some(<<"Tom", " ", "&amp;", " ", "Jerry">>), Some(<<" ">>)},
     ogDescription : {Undefined, Some(<<"A", "\\n", "B">>), Some(<<"\\r">>)},
     ogImage : {Undefined, Some(<<"https://", "cdn", "/i?a=1", "&amp;", "b=2">>)},
     profilePictures : {NoPictures, <<PicBare>>, <<PicBare, PicActors>>},
     ogUrl : {Undefined, Some(<<"https://", "www.", "facebook.com", "/canonical">>)},
     ogSiteName : {Undefined, Some(<<"Facebook">>)},
     ogType : {Undefined, Some(<<"article">>)},
     titleTag : {Undefined, Some(<<"Facebook">>), Some(<<"\\r", " ">>)}]

\* the values of metadata.image and metadata.thumbnail
ImageValues ==
    {Undefined, Some(<<>>), Some(<<"https://", "cdn", "/i">>), Some(<<"https://", "cdn", "/p">>)}

\* metadata given to createRichPreviewEmbed: every combination of a few
\* values of each property, and the record extracted from each document
LinkMetadatas ==
    [title : {Undefined, Some(<<"Tom">>)},
     description : {Some(<<"A">>)},
     image : ImageValues,
     thumbnail : ImageValues,
     url : {Undefined, Some(<<"https://", "www.", "facebook.com", "/canonical">>)},
     siteName : {Undefined, Some(<<"Facebook">>)},
     type : {Undefined},
     articleUrl : {Undefined, Some(<<"https://", "WWW.", "example.com", "/a">>), Some(<<"/a">>)},
     articleTitle : {Undefined, Some(<<"News">>)}]
    \cup {AsLinkMetadata(extractMetadataFromHtml(html, UrlWww)) :
            html \in {d \in Documents : extractMetadataFromHtml(d, UrlWww) # Null}}

\* a call that has been made and has not returned
Call(fn, args) == [fn |-> fn, args |-> args, returned |-> FALSE, result |-> <<>>]

\* the rest of the state plays no part in a call
NoBot ==
    /\ clock = 0
    /\ rateLimitTimestamps = [c \in Channels |-> <<>>]
    /\ lastCheck = NoCheck
    /\ admitted = [c \in Channels |-> <<>>]
    /\ refused = [c \in Channels |-> 0]
    /\ checks = 0
    /\ messageHelper = FALSE
    /\ cache = TRUE
    /\ store = EmptyStore
    /\ handlers = [m \in MessageIds |-> IdleHandler]
    /\ lastEvent = NoEvent

FunctionsInit ==
    /\ NoBot
    /\ \/ \E text \in Texts : call = Call("extractFacebookUrls", <<text>>)
       \/ \E url \in Urls : call = Call("isFacebookUrl", <<url>>)
       \/ \E url \in Urls : call = Call("normalizedUrl", <<url>>)
       \/ \E text \in EntityTexts : call = Call("decodeHtmlEntities", <<text>>)
       \/ \E html \in Documents : call = Call("extractMetadataFromHtml", <<html, UrlWww>>)
       \/ \E metadata \in LinkMetadatas :
             call = Call("createRichPreviewEmbed", <<metadata, UrlWww, DefaultColor>>)

\* extractFacebookUrls(text) returns
ExtractFacebookUrlsCall ==
    /\ call.fn = "extractFacebookUrls"
    /\ ~call.returned
    /\ call' = [call EXCEPT !.returned = TRUE,
                            !.result = extractFacebookUrls(call.args[1])]
    /\ UNCHANGED <<limiterVars, pipelineVars>>

\* isFacebookUrl(url) returns
IsFacebookUrlCall ==
    /\ call.fn = "isFacebookUrl"
    /\ ~call.returned
    /\ call' = [call EXCEPT !.returned = TRUE, !.result = isFacebookUrl(call.args[1])]
    /\ UNCHANGED <<limiterVars, pipelineVars>>

\* normalizedUrl has been computed from url (facebookMetadata.ts:155-163)
NormalizeUrlCall ==
    /\ call.fn = "normalizedUrl"
    /\ ~call.returned
    /\ call' = [call EXCEPT !.returned = TRUE, !.result = NormalizeUrl(call.args[1])]
    /\ UNCHANGED <<limiterVars, pipelineVars>>

\* decodeHtmlEntities(text) returns
DecodeHtmlEntitiesCall ==
    /\ call.fn = "decodeHtmlEntities"
    /\ ~call.returned
    /\ call' = [call EXCEPT !.returned = TRUE,
                            !.result = decodeHtmlEntities(call.args[1])]
    /\ UNCHANGED <<limiterVars, pipelineVars>>

\* extractMetadataFromHtml(html, url) returns
ExtractMetadataFromHtmlCall ==
    /\ call.fn = "extractMetadataFromHtml"
    /\ ~call.returned
    /\ call' = [call EXCEPT !.returned = TRUE,
                            !.result = extractMetadataFromHtml(call.args[1], call.args[2])]
    /\ UNCHANGED <<limiterVars, pipelineVars>>

\* createRichPreviewEmbed(metadata, originalUrl, providerConfig) returns
CreateRichPreviewEmbedCall ==
    /\ call.fn = "createRichPreviewEmbed"
    /\ ~call.returned
    /\ call' = [call EXCEPT !.returned = TRUE,
                            !.result = createRichPreviewEmbed(call.args[1], call.args[2],
                                                              call.args[3])]
    /\ UNCHANGED <<limiterVars, pipelineVars>>

FunctionsNext ==
    \/ ExtractFacebookUrlsCall
    \/ IsFacebookUrlCall
    \/ NormalizeUrlCall
    \/ DecodeHtmlEntitiesCall
    \/ ExtractMetadataFromHtmlCall
    \/ CreateRichPreviewEmbedCall

SpecFunctions == FunctionsInit /\ [][FunctionsNext]_vars

(***************************************************************************)
(* The handler on any text: the gateway delivers a user message whose      *)
(* content is a text of Texts, and onMessage runs up to the start of its   *)
(* tasks.                                                                  *)
(***************************************************************************)
TextsInit ==
    /\ clock = 0
    /\ rateLimitTimestamps = [c \in Channels |-> <<>>]
    /\ lastCheck = NoCheck
    /\ admitted = [c \in Channels |-> <<>>]
    /\ refused = [c \in Channels |-> 0]
    /\ checks = 0
    /\ messageHelper = FALSE
    /\ cache \in BOOLEAN
    /\ store = EmptyStore
    /\ handlers = [m \in MessageIds |-> IdleHandler]
    /\ lastEvent = NoEvent
    /\ \E text \in Texts :
          call = Call("onMessage", <<Message("MESSAGE_CREATE", FALSE, "c1", TRUE, text)>>)

TextsNext ==
    \/ OnReady
    \/ \E m \in MessageIds :
          \/ OnMessage(m)
          \/ DelayElapsed(m)
          \/ SuppressEmbedsDone(m)

SpecTexts == TextsInit /\ [][TextsNext]_vars

\* the call of fn that has returned
Returned(fn) == call.fn = fn /\ call.returned

(***************************************************************************)
(* Claims about the rate limiter (checked under SpecLimiter)               *)
(***************************************************************************)
Checked == lastCheck.channel # NoChannel

\* the admissions of a history that lie in the trailing window of now
PriorInWindow(history, now) ==
    Cardinality({i \in 1..Len(history) : now - history[i] < 60000})

\* C1: an admission check denies exactly when at least 10 earlier admissions
\* of the same channel lie less than 60000 ms before now; a denial records
\* nothing; an admission appends exactly one timestamp, equal to now.
C1_AdmissionRule ==
    Checked =>
        LET c     == lastCheck.channel
            after == rateLimitTimestamps[c]
        IN  /\ lastCheck.limited <=> PriorInWindow(lastCheck.prior, lastCheck.now) >= 10
            /\ lastCheck.limited =>
                  /\ after = lastCheck.before
                  /\ admitted[c] = lastCheck.prior
            /\ ~lastCheck.limited =>
                  /\ Len(after) = PriorInWindow(lastCheck.before, lastCheck.now) + 1
                  /\ after[Len(after)] = lastCheck.now
                  /\ \A i \in 1..(Len(after) - 1) : lastCheck.now - after[i] < 60000
                  /\ admitted[c] = Append(lastCheck.prior, lastCheck.now)

\* a denial although the channel has more than 10 earlier admissions in all:
\* only those of the trailing window count
C1_Witness ==
    /\ Checked
    /\ lastCheck.limited
    /\ Len(lastCheck.prior) > 10
    /\ rateLimitTimestamps[lastCheck.channel] = lastCheck.before

\* C2: in any order of checks and under a non-decreasing clock, no channel has
\* more than 10 admissions within a span shorter than 60 s, and a check on one
\* channel leaves the records of every other channel as they were.
C2_WindowBound ==
    /\ \A c \in Channels : \A i \in 1..Len(admitted[c]) :
          Cardinality({j \in 1..Len(admitted[c]) :
                          /\ admitted[c][j] >= admitted[c][i]
                          /\ admitted[c][j] - admitted[c][i] < 60000}) <= 10
    /\ Checked =>
          \A d \in Channels \ {lastCheck.channel} :
              rateLimitTimestamps[d] = lastCheck.others[d]

\* one channel has been admitted 11 times in all (10 in one window, one after
\* it), and a full channel did not keep the other channel from being admitted
C2_Witness ==
    \E c \in Channels : \E d \in Channels \ {c} :
        /\ Len(admitted[c]) = 11
        /\ Len(admitted[d]) = 1
        /\ lastCheck.channel = d
        /\ ~lastCheck.limited
        /\ Len(lastCheck.others[c]) = 10
        /\ \A i \in 1..10 : lastCheck.now - lastCheck.others[c][i] < 60000

\* C4: with exactly 10 admissions recorded, all less than 60 s old, the next
\* check denies; once 60 s or more have passed since the earliest of them and
\* nothing was recorded since, the next check admits.
C4_DenyThenAdmit ==
    (Checked /\ Len(lastCheck.before) = 10) =>
        /\ (\A i \in 1..10 : lastCheck.now - lastCheck.before[i] < 60000)
              => lastCheck.limited
        /\ (lastCheck.now - lastCheck.before[1] >= 60000)
              => ~lastCheck.limited

\* a channel that was denied at 10 admissions is admitted again exactly 60 s
\* after the earliest of them
C4_Witness ==
    /\ Checked
    /\ refused[lastCheck.channel] >= 1
    /\ Len(lastCheck.before) = 10
    /\ lastCheck.now - lastCheck.before[1] = 60000
    /\ ~lastCheck.limited
    /\ Len(admitted[lastCheck.channel]) = 11

\* C21: right after any admission check on a channel, admitted or denied, the
\* sequence stored for that channel holds only timestamps less than 60 s
\* before the time of the check, is in non-decreasing order, and has at most
\* 10 elements.
C21_StoredWindow ==
    Checked =>
        LET stored == rateLimitTimestamps[lastCheck.channel]
        IN  /\ \A i \in 1..Len(stored) :
                  /\ stored[i] <= lastCheck.now
                  /\ lastCheck.now - stored[i] < 60000
            /\ \A i \in 1..(Len(stored) - 1) : stored[i] <= stored[i + 1]
            /\ Len(stored) <= 10

\* a channel that has been denied is checked again when some of its
\* timestamps have left the window: they are dropped from the stored sequence
C21_Witness ==
    /\ Checked
    /\ refused[lastCheck.channel] >= 1
    /\ ~lastCheck.limited
    /\ Len(lastCheck.before) = 10
    /\ Len(rateLimitTimestamps[lastCheck.channel]) < 10

(***************************************************************************)
(* Claims about the handlers and the fetch pipeline (checked under Spec)   *)
(***************************************************************************)
\* the tasks that exist: the per-URL closures of the handlers being awaited
LiveTasks ==
    {t \in UNION {Range(handlers[m].tasks) : m \in MessageIds} : TRUE}

\* lastEvent is the completion of operation op awaited by a task
TaskEvent(op) == lastEvent.op = op /\ lastEvent.i # 0

\* the task whose awaited operation completed last, as it is after the
\* synchronous code that follows the await
EventTask == Task(lastEvent.m, lastEvent.i)

\* the pipelines started so far for messages of channel c
RECURSIVE PipelinesStarted(_, _)
PipelinesStarted(c, m) ==
    IF m = 0 THEN 0
    ELSE PipelinesStarted(c, m - 1) +
         (IF handlers[m].channel = c /\ handlers[m].phase \in {"tasks", "done"}
          THEN Len(handlers[m].urls) ELSE 0)

\* C3: every pipeline started has its own admission by the rate limiter on
\* the channel of its message: on no channel are more pipelines started than
\* admissions recorded, however many URLs one message holds.
C3_AdmissionPerPipeline ==
    \A c \in Channels : PipelinesStarted(c, MaxMessages) <= Len(admitted[c])

\* C5: a pipeline run on a working cache that fetched and returned metadata
\* leaves an entry for its URL holding that metadata; a run that finds an
\* entry returns the stored metadata with no HTTP request and no cache write.
C5_WriteThenHit ==
    /\ ( /\ cache
         /\ lastEvent.op \in {"primaryBody", "cachePut", "mobileBody"}
         /\ lastEvent.i # 0
         /\ lastEvent.outcome = "ok"
         /\ EventTask.returned = "value"
         /\ EventTask.metadata # Null )
       => store[getCacheKey(EventTask.url)] = JsonStringify(EventTask.metadata)
    /\ (TaskEvent("cacheGet") /\ lastEvent.outcome = "ok" /\ lastEvent.value.kind = "json")
       => /\ EventTask.returned = "value"
          /\ EventTask.metadata = JsonParse(lastEvent.value)
          /\ EventTask.requests = <<>>
          /\ EventTask.puts = <<>>

\* C6: the pipeline never raises: whatever fails, a task has the pipeline's
\* value (metadata or none) or is still waiting for it, and a task is
\* rejected only by a reply that threw.
C6_NeverRaises ==
    \A t \in LiveTasks :
        /\ t.returned \in {"pending", "value"}
        /\ t.returned = "value" =>
              (t.metadata = Null \/ DOMAIN t.metadata = MetadataKeys)
        /\ t.settled = "rejected" => Len(t.replies) = 1

\* a failure of every awaited operation of the pipeline but the cache read
\* has been seen to end in none
C6_Witness ==
    /\ lastEvent.op \in {"primaryFetch", "primaryBody", "mobileFetch", "mobileBody"}
    /\ lastEvent.i # 0
    /\ lastEvent.outcome \in {"error", "network", "timeout"}
    /\ EventTask.returned = "value"
    /\ EventTask.metadata = Null
    /\ EventTask.settled = "fulfilled"

\* C7: a primary response of 400, 401 or 403 is followed by exactly one
\* fallback request, and that request goes to the mobile host
\* m.facebook.com; any other non-2xx response by none and the result none;
\* a 2xx response by no fallback; when the fallback request has ended no
\* further request is made; no run issues more than two requests.
C7_FallbackRule ==
    /\ \A t \in LiveTasks : Len(t.requests) <= 2
    /\ (TaskEvent("primaryFetch") /\ lastEvent.outcome = "ok") =>
          LET t == EventTask
              status == lastEvent.status
          IN  /\ status \in {400, 401, 403} =>
                    /\ t.pc = "mobileFetch"
                    /\ t.returned = "pending"
                    /\ Len(t.requests) = 2
                    /\ UrlParses(t.requests[2])
                    /\ Hostname(t.requests[2]) = <<"m.", "facebook.com">>
              /\ (status \notin {400, 401, 403} /\ ~(status >= 200 /\ status <= 299)) =>
                    /\ t.returned = "value"
                    /\ t.metadata = Null
                    /\ Len(t.requests) = 1
              /\ (status >= 200 /\ status <= 299) =>
                    /\ t.pc = "primaryBody"
                    /\ Len(t.requests) = 1
    /\ (TaskEvent("primaryBody") \/ TaskEvent("cachePut")) => Len(EventTask.requests) = 1
    /\ (TaskEvent("mobileFetch") \/ TaskEvent("mobileBody")) =>
          /\ Len(EventTask.requests) = 2
          /\ EventTask.pc # "mobileBody" => EventTask.returned = "value"

\* C8: the fallback request of every run goes to the host m.facebook.com,
\* whatever the host form of the URL the run was started for.
C8_FallbackHostIsMobile ==
    \A t \in LiveTasks :
        Len(t.requests) = 2 => Hostname(t.requests[2]) = <<"m.", "facebook.com">>

\* C9: with a cache, a run that returns metadata it fetched and extracted,
\* from the primary response or from the fallback response, has attempted a
\* cache write under the key of its original URL before returning.
C9_WriteBeforeReturn ==
    \A t \in LiveTasks :
        (cache /\ t.returned = "value" /\ t.metadata # Null /\ t.requests # <<>>) =>
            /\ Len(t.puts) = 1
            /\ t.puts[1].key = getCacheKey(t.url)

\* C10: every entry the pipeline wrote holds metadata with a non-empty title
\* or description, and so does every write it attempts; a run that ends in
\* none (empty extraction or any failure) has attempted no write.
C10_NoNegativeCaching ==
    /\ \A k \in CacheKeys :
          store[k].kind = "json" => HasTitleOrDescription(JsonParse(store[k]))
    /\ \A t \in LiveTasks :
          /\ \A n \in 1..Len(t.puts) :
                /\ t.puts[n].value.kind = "json"
                /\ HasTitleOrDescription(JsonParse(t.puts[n].value))
          /\ (t.returned = "value" /\ t.metadata = Null) => t.puts = <<>>

\* a page without title and description was extracted with a cache present,
\* and the run ended in none
C10_Witness ==
    /\ cache
    /\ TaskEvent("primaryBody")
    /\ lastEvent.outcome = "ok"
    /\ lastEvent.html = PageBlank
    /\ EventTask.returned = "value"
    /\ EventTask.metadata = Null
    /\ EventTask.puts = <<>>


\* the task a cache miss leaves: nothing returned, nothing written, and the
\* primary request to the normalised URL under way
AfterMiss(t) ==
    /\ t.pc = "primaryFetch"
    /\ t.returned = "pending"
    /\ t.settled = "pending"
    /\ t.metadata = Null
    /\ t.puts = <<>>
    /\ t.replies = <<>>
    /\ Len(t.requests) = 1

\* C11: a cache read that throws, or that yields a string that is not JSON,
\* leaves the run exactly where a miss leaves it: at the primary fetch, with
\* nothing returned and nothing written, so that its result is decided as
\* for an empty cache.
C11_ReadFailureIsMiss ==
    (TaskEvent("cacheGet") /\
        (lastEvent.outcome = "error" \/ lastEvent.value.kind \in {"garbage", "absent"}))
    => /\ AfterMiss(EventTask)
       /\ EventTask = [NewTask(EventTask.url) EXCEPT
                          !.pc = "primaryFetch",
                          !.requests = <<NormalizeUrl(EventTask.url)>>]

\* the read of a key that holds a string that is not JSON has completed
C11_Witness ==
    /\ TaskEvent("cacheGet")
    /\ lastEvent.outcome = "ok"
    /\ lastEvent.value.kind = "garbage"
    /\ EventTask.pc = "primaryFetch"


\* C12: when cache.put throws, the run returns the metadata it extracted,
\* the same it returns when the put succeeds, and the step leaves the store
\* as it was.
C12_WriteFailureKeepsResult ==
    /\ [](TaskEvent("cachePut") =>
            /\ EventTask.returned = "value"
            /\ EventTask.metadata # Null
            /\ HasTitleOrDescription(EventTask.metadata)
            /\ Len(EventTask.puts) = 1
            /\ EventTask.puts[1].value = JsonStringify(EventTask.metadata))
    /\ [][(lastEvent'.op = "cachePut" /\ lastEvent'.outcome = "error")
            => store' = store]_vars

\* a put has failed on a store without an entry for the URL, and the run
\* has returned its metadata
C12_Witness ==
    /\ TaskEvent("cachePut")
    /\ lastEvent.outcome = "error"
    /\ store[getCacheKey(EventTask.url)] = Absent
    /\ EventTask.returned = "value"
    /\ EventTask.metadata # Null


\* C13: a run for URL u reads and writes the store only under the key
\* "link_meta:" followed by u as it was given, also when the request went to
\* the normalised URL; so the two forms of one share link have two entries,
\* and no run changes or reads the entry of another URL.
C13_OwnKeyOnly ==
    /\ [](\A t \in LiveTasks :
            \A n \in 1..Len(t.puts) : t.puts[n].key = <<"link_meta:">> \o t.url)
    /\ []((TaskEvent("cacheGet") /\ lastEvent.outcome = "ok") =>
            /\ <<"link_meta:">> \o EventTask.url \in DOMAIN store
            /\ lastEvent.value = store[<<"link_meta:">> \o EventTask.url])
    /\ [][\A k \in CacheKeys :
            store'[k] # store[k] =>
               \/ lastEvent'.op = "expire"
               \/ /\ lastEvent'.op = "cachePut"
                  /\ k = <<"link_meta:">> \o EventTask'.url]_vars

\* the share link on the www host has its entry, and the run for the same
\* link on the m host, whose request goes to the www host, has missed
C13_Witness ==
    /\ store[<<"link_meta:">> \o UrlShareWww].kind = "json"
    /\ store[<<"link_meta:">> \o UrlShare] = Absent
    /\ TaskEvent("cacheGet")
    /\ lastEvent.value = Absent
    /\ EventTask.url = UrlShare
    /\ EventTask.requests = <<UrlShareWww>>


\* the operations a task can be suspended at; the completion of each is
\* guarded by nothing but the task being suspended there
AwaitedOperations ==
    {"cacheGet", "primaryFetch", "primaryBody", "cachePut", "mobileFetch",
     "mobileBody", "reply"}

\* C14: the tasks of a message are all started together, one per URL; a
\* task that has not settled is suspended at an operation of its own,
\* whatever has happened to its siblings; the step of one task leaves its siblings as
\* they are; and the handler returns only when every task has settled.
C14_SiblingsIndependent ==
    /\ [](\A m \in MessageIds :
            handlers[m].phase = "tasks" =>
               /\ Len(handlers[m].tasks) = Len(handlers[m].urls)
               /\ \A i \in 1..Len(handlers[m].tasks) :
                     /\ Task(m, i).url = handlers[m].urls[i]
                     /\ Task(m, i).settled = "pending" =>
                           \E op \in AwaitedOperations : Running(m, i, op)
                     /\ Task(m, i).settled # "pending" => Task(m, i).pc = "settled")
    /\ [][\A m \in MessageIds :
            /\ (lastEvent'.i # 0 /\ lastEvent'.m = m) =>
                  \A j \in 1..Len(handlers[m].tasks) :
                     j # lastEvent'.i => handlers'[m].tasks[j] = handlers[m].tasks[j]
            /\ (handlers[m].phase = "tasks" /\ handlers'[m].phase # "tasks") =>
                  /\ handlers'[m].phase = "done"
                  /\ \A i \in 1..Len(handlers[m].tasks) :
                        Task(m, i).settled # "pending"]_vars

\* one task of a message has been rejected by a reply that threw, and after
\* that its sibling has sent its reply and is fulfilled
C14_Witness ==
    \E m \in MessageIds :
        /\ handlers[m].phase = "tasks"
        /\ Len(handlers[m].tasks) = 2
        /\ Task(m, 1).settled = "rejected"
        /\ TaskEvent("reply")
        /\ lastEvent.m = m
        /\ lastEvent.i = 2
        /\ Task(m, 2).settled = "fulfilled"
        /\ Len(Task(m, 2).replies) = 1


\* C15: runs for the same URL are not merged: each extracts from the page
\* it received itself and keeps that metadata through its cache write; a
\* write that succeeds replaces whatever a concurrent run has stored, so the
\* entry is the value of the write that happened last.
C15_LastWriteWins ==
    /\ []((TaskEvent("primaryBody") /\ lastEvent.outcome = "ok") =>
            EventTask.metadata =
                extractMetadataFromHtml(lastEvent.html, EventTask.requests[1]))
    /\ []((TaskEvent("cachePut") /\ lastEvent.outcome = "ok") =>
            /\ store[<<"link_meta:">> \o EventTask.url] = JsonStringify(EventTask.metadata)
            /\ EventTask.returned = "value")
    /\ [][lastEvent'.op = "cachePut" =>
            EventTask'.metadata = Task(lastEvent'.m, lastEvent'.i).metadata]_vars

\* two runs of one message for the same URL have both missed, fetched and
\* extracted different metadata; the second write has just succeeded and
\* the entry holds its value, not the value of the first run
C15_Witness ==
    \E m \in MessageIds :
        /\ handlers[m].phase = "tasks"
        /\ Len(handlers[m].tasks) = 2
        /\ Task(m, 1).url = Task(m, 2).url
        /\ Len(Task(m, 1).requests) = 1 /\ Len(Task(m, 2).requests) = 1
        /\ Len(Task(m, 1).puts) = 1 /\ Len(Task(m, 2).puts) = 1
        /\ Task(m, 1).returned = "value"
        /\ Task(m, 1).metadata # Task(m, 2).metadata
        /\ TaskEvent("cachePut") /\ lastEvent.outcome = "ok"
        /\ lastEvent.m = m /\ lastEvent.i = 2
        /\ store[getCacheKey(Task(m, 2).url)] = Task(m, 2).puts[1].value
        /\ store[getCacheKey(Task(m, 2).url)] # Task(m, 1).puts[1].value


\* the handlers of channel c that passed the rate limit check
Admitted(c) ==
    {m \in MessageIds :
        handlers[m].channel = c /\ handlers[m].phase \in {"delay", "suppress", "tasks", "done"}}

\* C16: no step of a task (cache read, fetch, body read, cache write, reply),
\* however it ends, changes the rate limiter's record of any channel; every
\* admitted message keeps its timestamp, whatever became of its pipelines.
C16_LimiterUntouched ==
    /\ [](\A c \in Channels : Len(rateLimitTimestamps[c]) = Cardinality(Admitted(c)))
    /\ [][lastEvent'.i # 0 =>
            /\ rateLimitTimestamps' = rateLimitTimestamps
            /\ admitted' = admitted
            /\ refused' = refused]_vars

\* a primary fetch has timed out and the run has ended in none; the
\* admission of its message is still recorded
C16_Witness ==
    /\ TaskEvent("primaryFetch")
    /\ lastEvent.outcome = "timeout"
    /\ EventTask.settled = "fulfilled"
    /\ EventTask.metadata = Null
    /\ Len(rateLimitTimestamps[handlers[lastEvent.m].channel]) >= 1


\* C17: the abort by the timer is reported as a timeout, which a network
\* error is not; a primary fetch that timed out ends the run in none with
\* one request, no fallback and no cache write; a fallback fetch that timed
\* out ends the run in none as well.
C17_TimeoutEndsRun ==
    /\ FetchRejection("AbortError") = "timeout"
    /\ FetchRejection("network") # "timeout"
    /\ (TaskEvent("primaryFetch") /\ lastEvent.outcome = "timeout") =>
          /\ EventTask.returned = "value"
          /\ EventTask.metadata = Null
          /\ EventTask.pc = "settled"
          /\ Len(EventTask.requests) = 1
          /\ EventTask.puts = <<>>
          /\ EventTask.replies = <<>>
    /\ (TaskEvent("mobileFetch") /\ lastEvent.outcome = "timeout") =>
          /\ EventTask.returned = "value"
          /\ EventTask.metadata = Null
          /\ EventTask.pc = "settled"
          /\ Len(EventTask.requests) = 2
          /\ EventTask.puts = <<>>
          /\ EventTask.replies = <<>>

\* the fallback fetch has timed out
C17_Witness ==
    /\ TaskEvent("mobileFetch")
    /\ lastEvent.outcome = "timeout"
    /\ EventTask.metadata = Null
    /\ EventTask.settled = "fulfilled"


\* C19: the metadata a run extracted has, as url, the entity-decoded og:url
\* of the page when the page has one, and otherwise the URL the run was
\* called with, not the normalised URL and not the fallback URL.
C19_UrlFallsBackToOriginal ==
    ((TaskEvent("primaryBody") \/ TaskEvent("mobileBody"))
        /\ lastEvent.outcome = "ok" /\ EventTask.metadata # Null)
    => LET ogUrl == CaptureContent(lastEvent.html.ogUrl)
       IN  /\ ogUrl = Undefined => EventTask.metadata.url = Some(EventTask.url)
           /\ ogUrl # Undefined =>
                 EventTask.metadata.url = Some(decodeHtmlEntities(TheText(ogUrl)))

\* C20: every put carries the expiration of 3600 seconds; an entry of the
\* store goes away only by expiry, and gets a new value only by the put of a
\* run for the same original URL, holding the metadata that run extracted.
C20_PutOnlyFixedTtl ==
    /\ [](\A t \in LiveTasks :
            \A n \in 1..Len(t.puts) : t.puts[n].expirationTtl = 3600)
    /\ [][\A k \in CacheKeys :
            store'[k] # store[k] =>
               IF store'[k] = Absent THEN lastEvent'.op = "expire"
               ELSE /\ lastEvent'.op = "cachePut"
                    /\ lastEvent'.outcome = "ok"
                    /\ k = <<"link_meta:">> \o EventTask'.url
                    /\ Len(EventTask'.requests) = 1
                    /\ HasTitleOrDescription(EventTask'.metadata)
                    /\ store'[k] = JsonStringify(EventTask'.metadata)]_vars

\* a put with the expiration of 3600 seconds has written an entry
C20_Witness ==
    /\ TaskEvent("cachePut")
    /\ lastEvent.outcome = "ok"
    /\ EventTask.puts[1].expirationTtl = 3600
    /\ store[getCacheKey(EventTask.url)] = EventTask.puts[1].value

(***************************************************************************)
(* Claims about termination (checked under SpecLive)                       *)
(***************************************************************************)
\* task i of handler m is inside fetchFacebookMetadata
InPipeline(m, i) ==
    /\ handlers[m].phase = "tasks"
    /\ i \in 1..Len(handlers[m].tasks)
    /\ Task(m, i).returned = "pending"

\* C18: when cache operations return and the abort timer fires, every run
\* of the pipeline eventually returns (metadata or none), also when the
\* server never completes a response or its body.
C18_EveryRunReturns ==
    \A m \in MessageIds : \A i \in 1..MaxTasks :
        InPipeline(m, i) ~> ~InPipeline(m, i)

(***************************************************************************)
(* Claims about the outcome of onMessage (checked under Spec)              *)
(***************************************************************************)
HandlerPhases == {"idle", "ignored", "denied", "delay", "suppress", "tasks", "done"}

\* C23: the message handler never rejects. A failed suppression is followed
\* by the tasks all the same, one per URL; when all tasks have settled the
\* handler returns normally, also when a task was rejected by a reply that
\* threw. What a failure shows to the user is only a missing preview for its
\* own URL: a task sends at most one reply, to the message it handles, a
\* task whose pipeline gave no usable metadata sends none, and every other
\* task sends its reply.
C23_HandlerResolves ==
    /\ [](\A m \in MessageIds :
            /\ handlers[m].phase \in HandlerPhases
            /\ (lastEvent.op = "suppressEmbeds" /\ lastEvent.m = m) =>
                  /\ handlers[m].phase = "tasks"
                  /\ Len(handlers[m].tasks) = Len(handlers[m].urls)
            /\ (lastEvent.op = "allSettled" /\ lastEvent.m = m) =>
                  handlers[m].phase = "done"
            /\ \A i \in 1..Len(handlers[m].tasks) :
                  LET t == Task(m, i)
                      usable == t.returned = "value" /\ t.metadata # Null
                                   /\ HasTitleOrDescription(t.metadata)
                  IN  /\ Len(t.replies) <= 1
                      /\ Len(t.replies) = 1 <=> usable
                      /\ \A r \in Range(t.replies) :
                            r = [channel |-> handlers[m].channel, message |-> handlers[m].id]
                      /\ t.settled = "rejected" => usable
                      /\ t.settled = "fulfilled" => t.returned = "value")
    /\ [][\A m \in MessageIds :
            (handlers[m].phase = "tasks" /\ EverySettled(handlers[m].tasks)
                /\ handlers'[m] # handlers[m])
               => handlers'[m].phase = "done"]_vars

\* a reply threw and rejected its task, and the handler has returned
\* normally after logging the rejection
C23_Witness ==
    /\ lastEvent.op = "allSettled"
    /\ lastEvent.outcome = "rejected"
    /\ handlers[lastEvent.m].phase = "done"
    /\ \A m \in MessageIds : handlers[m].phase \in {"done", "idle"}

\* C31: a gateway event that is not MESSAGE_CREATE, is authored by a bot,
\* has no channel id or no message id, holds no Facebook URL, or arrives
\* before onReady has created the message helper is ignored: the call makes
\* no admission check and leaves the rate windows and the cache as they are,
\* its handler has no task, and nothing ever happens for it afterwards (no
\* suppression, no cache access, no fetch, no reply).
C31_IgnoredHasNoEffect ==
    /\ [](lastEvent.op = "message" =>
            LET message == lastEvent.message
                guarded == \/ message.event # "MESSAGE_CREATE"
                           \/ message.authorIsBot
                           \/ message.channel = NoChannel
                           \/ ~message.hasId
                           \/ ~\E p \in UrlTokenStarts(message.content) :
                                  isFacebookUrl(UrlTokenAt(message.content, p))
                           \/ ~messageHelper
            IN  guarded =>
                   /\ lastEvent.outcome = "ignored"
                   /\ handlers[lastEvent.m].phase = "ignored"
                   /\ handlers[lastEvent.m].tasks = <<>>)
    /\ [][/\ (lastEvent'.op = "message" /\ lastEvent'.outcome = "ignored"
                /\ lastEvent' # lastEvent)
              => UNCHANGED <<limiterVars, store, messageHelper>>
           /\ \A m \in MessageIds :
                handlers[m].phase = "ignored" =>
                   /\ handlers'[m] = handlers[m]
                   /\ (lastEvent' # lastEvent => lastEvent'.m # m)]_vars

\* a user's message with a Facebook URL, a channel id and a message id has
\* arrived before the ready event and was ignored: no check was made
C31_Witness ==
    /\ lastEvent.op = "message"
    /\ lastEvent.outcome = "ignored"
    /\ ~messageHelper
    /\ lastEvent.message = Message("MESSAGE_CREATE", FALSE, "c1", TRUE, UrlApex)
    /\ handlers[lastEvent.m].phase = "ignored"
    /\ checks = 0
    /\ rateLimitTimestamps = [c \in Channels |-> <<>>]

\* the moves of a handler from one point of onMessage to the next
PhaseMoves ==
    {<<"idle", "ignored">>, <<"idle", "denied">>, <<"idle", "delay">>,
     <<"delay", "suppress">>, <<"suppress", "tasks">>, <<"tasks", "done">>}

\* C32: for an admitted message the admission is recorded first, then comes
\* the delay, then one suppression attempt, then the pipelines: a handler has
\* no task before its suppression attempt has ended, it makes that attempt
\* once, and when the attempt ends, failed or not, one task per URL has
\* started its pipeline.
C32_SuppressThenProcess ==
    /\ [](\A m \in MessageIds :
            /\ handlers[m].phase \in {"delay", "suppress"} =>
                  /\ handlers[m].tasks = <<>>
                  /\ handlers[m].urls # <<>>
                  /\ Len(admitted[handlers[m].channel]) >= 1
                  /\ rateLimitTimestamps[handlers[m].channel] # <<>>
            /\ (lastEvent.m = m /\ lastEvent.i # 0) => handlers[m].phase = "tasks"
            /\ (lastEvent.m = m /\ lastEvent.op = "suppressEmbeds") =>
                  /\ handlers[m].phase = "tasks"
                  /\ Len(handlers[m].tasks) = Len(handlers[m].urls)
                  /\ \A i \in 1..Len(handlers[m].tasks) :
                        /\ Task(m, i).url = handlers[m].urls[i]
                        /\ Task(m, i).pc \in {"cacheGet", "primaryFetch"}
                        /\ Task(m, i).replies = <<>>)
    /\ [][\A m \in MessageIds :
            handlers'[m].phase # handlers[m].phase =>
               /\ <<handlers[m].phase, handlers'[m].phase>> \in PhaseMoves
               /\ handlers'[m].phase = "delay" =>
                     /\ lastEvent'.op = "message" /\ lastEvent'.outcome = "admitted"
                     /\ admitted'[handlers'[m].channel] =
                           Append(admitted[handlers'[m].channel], clock)
               /\ handlers'[m].phase = "suppress" =>
                     lastEvent'.op = "delay" /\ lastEvent'.m = m
               /\ handlers'[m].phase = "tasks" =>
                     lastEvent'.op = "suppressEmbeds" /\ lastEvent'.m = m]_vars

\* the suppression attempt of a message with two URLs has failed, and both
\* pipelines have started
C32_Witness ==
    /\ lastEvent.op = "suppressEmbeds"
    /\ lastEvent.outcome = "error"
    /\ handlers[lastEvent.m].phase = "tasks"
    /\ Len(handlers[lastEvent.m].tasks) = 2
    /\ \A i \in 1..2 : Running(lastEvent.m, i, "cacheGet")

\* C33: a task replies only when its pipeline returned metadata whose title
\* or description is non-empty; it attempts at most one reply, addressed to
\* the channel and the id of the message that held its URL; a task whose
\* pipeline returned null, or a record with neither, or threw, replies never.
\* The reply is started in the step in which the pipeline returns, and its
\* outcome starts no other.
C33_ReplyOnlyForUsableMetadata ==
    /\ [](\A m \in MessageIds : \A i \in 1..Len(handlers[m].tasks) :
            LET t == Task(m, i)
            IN  /\ Len(t.replies) <= 1
                /\ t.replies # <<>> =>
                      /\ t.returned = "value"
                      /\ t.metadata # Null
                      /\ Truthy(t.metadata.title) \/ Truthy(t.metadata.description)
                      /\ t.replies[1].channel = handlers[m].channel
                      /\ t.replies[1].message = handlers[m].id
                      /\ t.url = handlers[m].urls[i]
                /\ (t.returned = "value" /\ t.metadata = Null) => t.replies = <<>>
                /\ t.returned \in {"pending", "raised"} => t.replies = <<>>
                /\ t.pc = "reply" <=> (t.replies # <<>> /\ t.settled = "pending"))
    /\ [][\A m \in MessageIds : \A i \in 1..Len(handlers[m].tasks) :
            handlers'[m].tasks # <<>> =>
               /\ Task(m, i).replies # <<>> =>
                     handlers'[m].tasks[i].replies = Task(m, i).replies
               /\ handlers'[m].tasks[i].replies # Task(m, i).replies =>
                     /\ lastEvent'.m = m /\ lastEvent'.i = i
                     /\ lastEvent'.op # "reply"
                     /\ Task(m, i).returned = "pending"
                     /\ handlers'[m].tasks[i].returned = "value"
               /\ (lastEvent'.op = "reply" /\ lastEvent' # lastEvent) =>
                     handlers'[m].tasks[i].replies = Task(m, i).replies]_vars

\* of the two tasks of one message, the first replied for a page that has
\* only a description and the reply threw; the second, whose pipeline returned
\* null, has settled without a reply
C33_Witness ==
    /\ lastEvent.op = "reply"
    /\ lastEvent.outcome = "error"
    /\ lastEvent.i = 1
    /\ Len(handlers[lastEvent.m].tasks) = 2
    /\ Len(Task(lastEvent.m, 1).replies) = 1
    /\ Task(lastEvent.m, 1).settled = "rejected"
    /\ ~Truthy(Task(lastEvent.m, 1).metadata.title)
    /\ Task(lastEvent.m, 2).returned = "value"
    /\ Task(lastEvent.m, 2).metadata = Null
    /\ Task(lastEvent.m, 2).replies = <<>>

(***************************************************************************)
(* Claims about denied messages (checked under SpecBusy)                   *)
(***************************************************************************)
\* C22: a message denied by the rate limiter is dropped. Its handler has no
\* task, and from the denial on nothing happens for it: no suppression
\* request, no cache access, no fetch and no reply completes for that
\* message, and its handler never leaves the denied state, also when the
\* window of its channel has room again.
C22_DeniedIsDropped ==
    /\ [](\A m \in MessageIds :
            /\ (lastEvent.op = "message" /\ lastEvent.m = m /\ lastEvent.outcome = "denied")
                  => handlers[m].phase = "denied"
            /\ handlers[m].phase = "denied" => handlers[m].tasks = <<>>)
    /\ [][\A m \in MessageIds :
            handlers[m].phase = "denied" =>
                /\ handlers'[m] = handlers[m]
                /\ (lastEvent' # lastEvent => lastEvent'.m # m)]_vars

\* a message of the busy channel was denied; a later message of the same
\* channel, sent when the window had room again, was admitted and handled to
\* the end with a reply, while the denied one stayed dropped
C22_Witness ==
    \E m \in MessageIds : \E n \in MessageIds :
        /\ handlers[m].phase = "denied"
        /\ handlers[m].channel = BusyChannel
        /\ n > m
        /\ handlers[n].channel = BusyChannel
        /\ lastEvent.op = "reply" /\ lastEvent.m = n /\ lastEvent.outcome = "ok"
        /\ refused[BusyChannel] = 1

(***************************************************************************)
(* Claims about the URLs of a message (checked under SpecTexts)            *)
(***************************************************************************)
\* C24 (checked under SpecTexts): the URLs the handler extracts from the
\* content of a message are exactly the URL tokens of the text that pass
\* isFacebookUrl, in their order in the text and with repeated occurrences
\* kept; a message that passes every other guard is ignored only when there
\* is none; and the tasks the handler starts are one per element of that
\* sequence, in the same order, each with the pipeline of its URL started.
C24_ExtractKeepsOrderAndRepeats ==
    call.fn = "onMessage" =>
        LET text   == call.args[1].content
            starts == {p \in UrlTokenStarts(text) : isFacebookUrl(UrlTokenAt(text, p))}
            Nth(p) == 1 + Cardinality({q \in starts : q < p})
        IN  \A m \in MessageIds :
               LET h == handlers[m]
               IN  /\ h.phase \in {"denied", "delay", "suppress", "tasks", "done"} =>
                         /\ Len(h.urls) = Cardinality(starts)
                         /\ \A p \in starts : h.urls[Nth(p)] = UrlTokenAt(text, p)
                   /\ (lastEvent.op = "message" /\ lastEvent.m = m /\ messageHelper
                          /\ lastEvent.outcome = "ignored") => starts = {}
                   /\ h.phase \in {"idle", "ignored", "delay", "suppress"} => h.tasks = <<>>
                   /\ h.phase = "tasks" =>
                         /\ Len(h.tasks) = Cardinality(starts)
                         /\ \A p \in starts :
                               LET t == h.tasks[Nth(p)]
                               IN  /\ t.url = UrlTokenAt(text, p)
                                   /\ t.pc = IF cache THEN "cacheGet" ELSE "primaryFetch"
                                   /\ t.requests = IF cache THEN <<>>
                                                   ELSE <<NormalizeUrl(t.url)>>

\* a message with two different Facebook URLs, the apex one before the mobile
\* one: the handler has started two tasks, in that order
C24_Witness ==
    /\ call.fn = "onMessage"
    /\ call.args[1].content =
          <<"https://", "facebook.com", " ", "https://", "m.", "facebook.com">>
    /\ handlers[1].phase = "tasks"
    /\ Len(handlers[1].tasks) = 2
    /\ handlers[1].tasks[1].url = <<"https://", "facebook.com">>
    /\ handlers[1].tasks[2].url = <<"https://", "m.", "facebook.com">>

(***************************************************************************)
(* Claims about the functions (checked under SpecFunctions)                *)
(***************************************************************************)
\* the host of a string that parses as a URL belongs to the platform: the
\* apex facebook.com or a subdomain of it, or the alias fb.com or a subdomain
\* of it
BelongsToPlatform(url) ==
    /\ UrlParses(url)
    /\ LET hostname == Hostname(url)
       IN  /\ hostname # <<>>
           /\ hostname[Len(hostname)] \in {"facebook.com", "fb.com"}
           /\ Len(hostname) >= 2 => hostname[Len(hostname) - 1] \in LabelTokens

\* C25: isFacebookUrl returns true for every well-formed URL whose host is
\* the apex, www, m or any other subdomain of the apex, or the short alias
\* or one of its subdomains; false for every URL with another host; and
\* false for every string that does not parse as a URL.
C25_TargetPlatformRule ==
    Returned("isFacebookUrl") => (call.result <=> BelongsToPlatform(call.args[1]))

\* C26: in the record extracted from a page, with neither og:image nor a
\* profile picture URI image and thumbnail are both absent; with a profile
\* picture URI only, thumbnail and image are both the decoded URI; with both,
\* thumbnail is the profile picture URI and image is the og:image value;
\* thumbnail is never taken from og:image.
C26_ThumbnailImageMerge ==
    (Returned("extractMetadataFromHtml") /\ call.result # Null) =>
        LET html    == call.args[1]
            ogImage == CaptureContent(html.ogImage)
            picture == ProfilePicMatch(html.profilePictures)
            uri     == Some(DecodeProfilePic(TheText(picture)))
        IN  /\ (ogImage = Undefined /\ picture = Undefined) =>
                  /\ call.result.image = Undefined
                  /\ call.result.thumbnail = Undefined
            /\ (ogImage = Undefined /\ picture # Undefined) =>
                  /\ call.result.thumbnail = uri
                  /\ call.result.image = uri
            /\ (ogImage # Undefined /\ picture # Undefined) =>
                  /\ call.result.thumbnail = uri
                  /\ call.result.image = Some(decodeHtmlEntities(TheText(ogImage)))
            /\ (ogImage # Undefined /\ picture = Undefined) =>
                  /\ call.result.thumbnail = Undefined
                  /\ call.result.image = Some(decodeHtmlEntities(TheText(ogImage)))

\* a page with og:image and two profile pictures: the record has the picture
\* of the actors pattern as thumbnail and the decoded og:image as image
C26_Witness ==
    /\ Returned("extractMetadataFromHtml")
    /\ call.result # Null
    /\ call.args[1].ogImage # Undefined
    /\ call.args[1].profilePictures = <<PicBare, PicActors>>
    /\ call.result.thumbnail = Some(<<"https:", "/", "/", "cdn", "/", "q">>)
    /\ call.result.image = Some(<<"https://", "cdn", "/i?a=1", "&", "b=2">>)

\* a captured text that is not empty after decoding and cleaning
NonEmptyText(capture) ==
    /\ capture # Undefined
    /\ cleanEscapeSequences(decodeHtmlEntities(TheText(capture))) # <<>>

\* C27: extractMetadataFromHtml returns null exactly for the documents in
\* which, after decoding and cleaning, the og:title, the title element and the
\* og:description are all empty or missing, whatever other fields were
\* found; otherwise it returns a record, whose title is the og:title or,
\* failing that, the title element.
C27_ValidityGate ==
    Returned("extractMetadataFromHtml") =>
        LET html        == call.args[1]
            ogTitle     == CaptureContent(html.ogTitle)
            titleTag    == CaptureTitleTag(html.titleTag)
            description == CaptureContent(html.ogDescription)
        IN  /\ call.result = Null <=>
                  ~(NonEmptyText(ogTitle) \/ NonEmptyText(titleTag)
                       \/ NonEmptyText(description))
            /\ call.result # Null =>
                  /\ DOMAIN call.result = MetadataKeys
                  /\ NonEmptyText(ogTitle) =>
                        call.result.title =
                           Some(cleanEscapeSequences(decodeHtmlEntities(TheText(ogTitle))))
                  /\ (~NonEmptyText(ogTitle) /\ NonEmptyText(titleTag)) =>
                        call.result.title =
                           Some(cleanEscapeSequences(decodeHtmlEntities(TheText(titleTag))))

\* a document with og:title, title element and og:description present but
\* blank after cleaning, and with image, picture, url, site name and type:
\* the result is null
C27_Witness ==
    /\ Returned("extractMetadataFromHtml")
    /\ call.result = Null
    /\ call.args[1].ogTitle = Some(<<" ">>)
    /\ call.args[1].titleTag = Some(<<"\\r", " ">>)
    /\ call.args[1].ogDescription = Some(<<"\\r">>)
    /\ call.args[1].ogImage # Undefined
    /\ call.args[1].profilePictures # NoPictures
    /\ call.args[1].ogUrl # Undefined
    /\ call.args[1].ogSiteName # Undefined
    /\ call.args[1].ogType # Undefined

\* C28: entity decoding is idempotent: decoding the result of a decoding
\* once more changes nothing.
C28_DecodeIdempotent ==
    Returned("decodeHtmlEntities") => decodeHtmlEntities(call.result) = call.result

\* the code point a numeric character reference denotes
ReferencedCodePoint(token) ==
    IF \E n \in DOMAIN HexDigits : token = "&" \o n
    THEN ParseInt(HexDigits[CHOOSE n \in DOMAIN HexDigits : token = "&" \o n], 16)
    ELSE ParseInt(DecDigits[CHOOSE n \in DOMAIN DecDigits : token = "&" \o n], 10)

NumericReferences ==
    {"&" \o n : n \in DOMAIN HexDigits} \cup {"&" \o n : n \in DOMAIN DecDigits}

\* a code point that is a character: up to 0x10FFFF and not a surrogate
ValidCharacter(codePoint) ==
    codePoint <= 1114111 /\ ~(codePoint >= 55296 /\ codePoint <= 57343)

\* C29: a text that is one hexadecimal or decimal character reference is
\* decoded to the single character of its code point when that is a valid
\* character, also above 0xFFFF, and to U+FFFD when it is not (a value above
\* 0x10FFFF or a surrogate code point).
C29_NumericReferences ==
    (Returned("decodeHtmlEntities") /\ Len(call.args[1]) = 1
        /\ call.args[1][1] \in NumericReferences) =>
        LET codePoint == ReferencedCodePoint(call.args[1][1])
        IN  call.result =
               <<IF ValidCharacter(codePoint) THEN CharToken(CodeUnits(codePoint))
                 ELSE CharToken(<<65533>>)>>

\* a string that parses as a URL whose host is the apex, www or m host
OnApexWwwOrM(url) ==
    /\ UrlParses(url)
    /\ Hostname(url) \in {<<"facebook.com">>, <<"www.", "facebook.com">>,
                          <<"m.", "facebook.com">>}

\* the scheme of a URL, and what follows its host
UpToScheme(url) == SubSeq(url, 1, SchemePosition(url))

AfterHost(url) == SubSeq(url, SchemePosition(url) + Len(Hostname(url)) + 1, Len(url))

\* C30: normalisation gives a share link (a URL containing /share/) on the
\* apex, www or m host the www host and leaves its scheme and everything
\* after the host as they are; every other URL passes through unchanged; and
\* normalising a normalised URL changes nothing.
C30_NormalizeRule ==
    Returned("normalizedUrl") =>
        LET url    == call.args[1]
            result == call.result
        IN  /\ (IncludesShare(url) /\ OnApexWwwOrM(url)) =>
                  /\ UrlParses(result)
                  /\ Hostname(result) = <<"www.", "facebook.com">>
                  /\ UpToScheme(result) = UpToScheme(url)
                  /\ AfterHost(result) = AfterHost(url)
            /\ ~(IncludesShare(url) /\ OnApexWwwOrM(url)) => result = url
            /\ NormalizeUrl(result) = result

(***************************************************************************)
(* Claims about the embed (checked under SpecFunctions)                    *)
(***************************************************************************)
\* the documents in which a profile picture is found and no og:image, each
\* with the record extracted from it
OnlyProfilePicture ==
    {<<html, AsLinkMetadata(extractMetadataFromHtml(html, UrlWww))>> :
        html \in {d \in Documents :
                    /\ CaptureContent(d.ogImage) = Undefined
                    /\ ProfilePicMatch(d.profilePictures) # Undefined
                    /\ extractMetadataFromHtml(d, UrlWww) # Null}}

\* C34: the embed has a main image exactly when metadata.image is present and
\* either metadata.thumbnail is absent or the two differ, and then it is
\* metadata.image; it has a thumbnail exactly when metadata.thumbnail is
\* present, and then it is metadata.thumbnail. So the embed built from the
\* record of a page that gave only a profile picture has that picture as
\* thumbnail and no main image.
C34_EmbedImageRule ==
    Returned("createRichPreviewEmbed") =>
        LET metadata == call.args[1]
            embed    == call.result
        IN  /\ embed.image # Undefined <=>
                  /\ Truthy(metadata.image)
                  /\ ~Truthy(metadata.thumbnail) \/ metadata.image # metadata.thumbnail
            /\ embed.image # Undefined => embed.image = metadata.image
            /\ embed.thumbnail # Undefined <=> Truthy(metadata.thumbnail)
            /\ Truthy(metadata.thumbnail) => embed.thumbnail = metadata.thumbnail
            /\ \A page \in OnlyProfilePicture :
                  metadata = page[2] =>
                     /\ embed.thumbnail =
                           Some(DecodeProfilePic(TheText(ProfilePicMatch(page[1].profilePictures))))
                     /\ embed.image = Undefined

\* the embed of the record extracted from a page with a profile picture and
\* no og:image: the picture is its thumbnail and it has no main image
C34_Witness ==
    /\ Returned("createRichPreviewEmbed")
    /\ \E page \in OnlyProfilePicture : call.args[1] = page[2]
    /\ call.args[1].image = Some(<<"https:", "/", "/", "cdn", "/", "p">>)
    /\ call.args[1].thumbnail = call.args[1].image
    /\ call.result.thumbnail = Some(<<"https:", "/", "/", "cdn", "/", "p">>)
    /\ call.result.image = Undefined

====
